---- MODULE Spec2Model ----
(***************************************************************************)
(* LLM Compass backend (server.js, the LLM + relaxation + server cache     *)
(* variant): the server-side model cache, the constraint extraction, the   *)
(* deterministic filter with progressive relaxation and the                *)
(* /api/recommend and /api/models handlers.                                *)
(*                                                                         *)
(* JavaScript strings are sequences of one-character strings, so that      *)
(* toLowerCase, startsWith, includes, split and join are computed.         *)
(* JavaScript values whose type the code does not control (the parsed      *)
(* output of a generative call, an optional field of an upstream record)   *)
(* are tagged records [t |-> type, v |-> value].                           *)
(***************************************************************************)
EXTENDS Integers, Sequences, FiniteSets, TLC

(***************************************************************************)
(* Bounds of the model.                                                    *)
(***************************************************************************)
\* Longest catalog drawn for the pure filter specification.
MaxCatalog == 4
\* Largest minCandidates drawn for the pure filter specification.
MaxMinCandidates == 3
\* Number of requests the server handles at the same time.
MaxRequests == 2
\* Number of clock steps (of ClockStep milliseconds) the server runs for.
MaxTicks == 3
\* Size of the large upstream catalog (more than the ranking stage takes).
BigCatalogSize == 52
\* Number of browser tasks that call the cache service at the same time.
MaxTasks == 2
\* Number of clock steps (of ClientClockStep milliseconds) the browser runs for.
MaxClientTicks == 5
\* Number of words in a use-case text given to the rule-based extractor.
MaxWords == 2
\* Number of recommendation requests the page makes.
MaxUiRequests == 1
\* Number of tokens (modality names and separators) in a modality string.
MaxTokens == 3

(***************************************************************************)
(* JavaScript strings.                                                     *)
(***************************************************************************)
Lower == <<"a","b","c","d","e","f","g","h","i","j","k","l","m",
           "n","o","p","q","r","s","t","u","v","w","x","y","z">>
Upper == <<"A","B","C","D","E","F","G","H","I","J","K","L","M",
           "N","O","P","Q","R","S","T","U","V","W","X","Y","Z">>

ToLowerChar(c) ==
    IF \E i \in 1..Len(Upper) : Upper[i] = c
    THEN Lower[CHOOSE i \in 1..Len(Upper) : Upper[i] = c]
    ELSE c

RECURSIVE toLowerCase(_)
toLowerCase(s) ==
    IF s = <<>> THEN <<>> ELSE <<ToLowerChar(Head(s))>> \o toLowerCase(Tail(s))

startsWith(s, p) == Len(p) <= Len(s) /\ SubSeq(s, 1, Len(p)) = p

\* String.prototype.includes: p occurs in s as a substring.
includes(s, p) ==
    \E i \in 0..(Len(s) - Len(p)) : SubSeq(s, i + 1, i + Len(p)) = p

\* Position of the first occurrence of p in s (1-based); only used when includes(s, p).
IndexOf(s, p) ==
    CHOOSE i \in 1..(Len(s) - Len(p) + 1) :
        /\ SubSeq(s, i, i + Len(p) - 1) = p
        /\ \A j \in 1..(i - 1) : SubSeq(s, j, j + Len(p) - 1) # p

\* String.prototype.split with a non-empty separator.
RECURSIVE split(_, _)
split(s, sep) ==
    IF includes(s, sep)
    THEN LET i == IndexOf(s, sep)
         IN  <<SubSeq(s, 1, i - 1)>> \o split(SubSeq(s, i + Len(sep), Len(s)), sep)
    ELSE <<s>>

\* Array.prototype.join on an array of strings.
RECURSIVE join(_, _)
join(a, sep) ==
    IF a = <<>> THEN <<>>
    ELSE IF Len(a) = 1 THEN a[1]
    ELSE a[1] \o sep \o join(Tail(a), sep)

\* Array.prototype.includes.
arrayIncludes(a, x) == \E i \in 1..Len(a) : a[i] = x

(***************************************************************************)
(* String literals of the source.                                          *)
(***************************************************************************)
sText       == <<"t","e","x","t">>
sImage      == <<"i","m","a","g","e">>
sEmbeddings == <<"e","m","b","e","d","d","i","n","g","s">>
sEmbedding  == <<"e","m","b","e","d","d","i","n","g">>
sBase       == <<"b","a","s","e">>
sChat       == <<"c","h","a","t">>
sAny        == <<"a","n","y">>
sArrow      == <<"-",">">>
sPlus       == <<"+">>
sSpace      == <<" ">>
sZero       == <<"0">>
sOpenai     == <<"o","p","e","n","a","i">>
sAnthropic  == <<"a","n","t","h","r","o","p","i","c">>
sGoogle     == <<"g","o","o","g","l","e">>
sMetaLlama  == <<"m","e","t","a","-","l","l","a","m","a">>
sMistral    == <<"m","i","s","t","r","a","l">>
sTextToText == sText \o sArrow \o sText

(***************************************************************************)
(* Tagged JavaScript values.                                               *)
(***************************************************************************)
Undefined == [t |-> "undefined"]
Null      == [t |-> "null"]
Num(n)    == [t |-> "number", v |-> n]
Str(s)    == [t |-> "string", v |-> s]
Arr(a)    == [t |-> "array", v |-> a]
Obj(o)    == [t |-> "object", v |-> o]

\* x is null or undefined: reading a property of x throws a TypeError.
IsNullish(x) == x.t \in {"undefined", "null"}

\* JavaScript truthiness of a tagged value.
Truthy(x) ==
    CASE x.t = "undefined" -> FALSE
      [] x.t = "null"      -> FALSE
      [] x.t = "number"    -> x.v # 0
      [] x.t = "string"    -> x.v # <<>>
      [] OTHER             -> TRUE

(***************************************************************************)
(* Numbers in arithmetic are IEEE 754 doubles.  A finite double that is    *)
(* not negative is [nan |-> FALSE, exp, bits]: bits is the 53-bit          *)
(* significand, most significant bit first, and the value is               *)
(* 1.b2...b53 x 2^exp; zero has no bits.  parseFloat reads a decimal       *)
(* string (up to nine decimal places) as the nearest double, or NaN when   *)
(* the string does not start with a decimal number.                        *)
(***************************************************************************)
Digits == <<"0","1","2","3","4","5","6","7","8","9">>
IsDigit(c) == \E i \in 1..10 : Digits[i] = c
DigitValue(c) == (CHOOSE i \in 1..10 : Digits[i] = c) - 1

RECURSIVE Pow10(_)
Pow10(k) == IF k = 0 THEN 1 ELSE 10 * Pow10(k - 1)

\* Length of the longest prefix of s made of digits.
RECURSIVE DigitPrefixLen(_)
DigitPrefixLen(s) ==
    IF s # <<>> /\ IsDigit(Head(s)) THEN 1 + DigitPrefixLen(Tail(s)) ELSE 0

RECURSIVE DigitsToInt(_)
DigitsToInt(s) ==
    IF s = <<>> THEN 0
    ELSE DigitsToInt(SubSeq(s, 1, Len(s) - 1)) * 10 + DigitValue(s[Len(s)])

NaN == [nan |-> TRUE, exp |-> 0, bits |-> <<>>]
Zero == [nan |-> FALSE, exp |-> 0, bits |-> <<>>]

RECURSIVE Pow2(_)
Pow2(k) == IF k = 0 THEN 1 ELSE 2 * Pow2(k - 1)

Pow5(k) == Pow10(k) \div Pow2(k)

\* The number of binary digits of a natural number below 2^30, 0 for 0.
BitLength(n) ==
    CHOOSE len \in 0..30 : /\ n < Pow2(len)
                           /\ len > 0 => Pow2(len - 1) <= n

\* The last len binary digits of a natural number.
LowBits(n, len) == [i \in 1..len |-> (n \div Pow2(len - i)) % 2]

\* The binary digits of a natural number, none for 0.
IntBits(n) == LowBits(n, BitLength(n))

\* The natural number with the binary digits b (fewer than 31).
RECURSIVE BitsToInt(_)
BitsToInt(b) ==
    IF b = <<>> THEN 0
    ELSE 2 * BitsToInt(SubSeq(b, 1, Len(b) - 1)) + b[Len(b)]

\* b + 1 on a bit string that has a 0 bit.
Increment(b) ==
    [i \in 1..Len(b) |->
        IF \E j \in (i + 1)..Len(b) : b[j] = 0 THEN b[i]
        ELSE IF b[i] = 0 THEN 1 ELSE 0]

\* Round to nearest, ties to even: the double nearest to 1.s2 s3 ... x 2^e,
\* where sig has at least 54 bits and starts with 1, and sticky tells that
\* the exact value has further nonzero bits after those of sig.
RoundToDouble(sig, sticky, e) ==
    LET up == /\ sig[54] = 1
              /\ \/ sticky
                 \/ \E i \in 55..Len(sig) : sig[i] = 1
                 \/ sig[53] = 1
    IN  IF ~up THEN [nan |-> FALSE, exp |-> e, bits |-> SubSeq(sig, 1, 53)]
        ELSE IF \A i \in 1..53 : sig[i] = 1
        THEN [nan |-> FALSE, exp |-> e + 1, bits |-> <<1>> \o [i \in 1..52 |-> 0]]
        ELSE [nan |-> FALSE, exp |-> e, bits |-> Increment(SubSeq(sig, 1, 53))]

\* Long division of r by q (r < q <= 5^9), ten bits at a time: the remainder
\* after j steps, (r * 1024^j) mod q.
RECURSIVE LimbRem(_, _, _)
LimbRem(r, q, j) == IF j = 0 THEN r ELSE (LimbRem(r, q, j - 1) * 1024) % q

\* The ten bits of the quotient at step j.
LimbQuotient(r, q, j) == LowBits((LimbRem(r, q, j - 1) * 1024) \div q, 10)

\* The first k + 80 bits of the binary expansion of the fraction n / 10^k
\* (n < 10^k, k <= 9): n / 10^k is n / 5^k with the binary point moved k places.
FractionBits(n, k) ==
    LowBits(n \div Pow5(k), k)
    \o LimbQuotient(n % Pow5(k), Pow5(k), 1) \o LimbQuotient(n % Pow5(k), Pow5(k), 2)
    \o LimbQuotient(n % Pow5(k), Pow5(k), 3) \o LimbQuotient(n % Pow5(k), Pow5(k), 4)
    \o LimbQuotient(n % Pow5(k), Pow5(k), 5) \o LimbQuotient(n % Pow5(k), Pow5(k), 6)
    \o LimbQuotient(n % Pow5(k), Pow5(k), 7) \o LimbQuotient(n % Pow5(k), Pow5(k), 8)

\* The number of 0 bits a bit string that has a 1 bit starts with.
LeadingZeros(b) ==
    (CHOOSE i \in 1..Len(b) : b[i] = 1 /\ \A j \in 1..(i - 1) : b[j] = 0) - 1

\* The double nearest to the decimal ip + n / 10^k  (n < 10^k, k <= 9, ip < 2^30):
\* its binary digits from the first 1 on, rounded.
DecimalToDouble(ip, n, k) ==
    IF ip = 0 /\ n = 0 THEN Zero
    ELSE RoundToDouble(
             SubSeq(IntBits(ip) \o FractionBits(n, k),
                    LeadingZeros(IntBits(ip) \o FractionBits(n, k)) + 1,
                    BitLength(ip) + k + 80),
             LimbRem(n % Pow5(k), Pow5(k), 8) # 0,
             BitLength(ip) - LeadingZeros(IntBits(ip) \o FractionBits(n, k)) - 1)

\* Long multiplication of a 53-bit string b by a natural number k <= 2000000,
\* ten bits at a time from the last bit.  Limb j (1..5) is bits 54-10j .. 63-10j.
Limb(b, j) == BitsToInt(SubSeq(b, 54 - 10 * j, 63 - 10 * j))

\* The carry out of limb j.
RECURSIVE CarryOut(_, _, _)
CarryOut(b, k, j) ==
    IF j = 0 THEN 0 ELSE (Limb(b, j) * k + CarryOut(b, k, j - 1)) \div 1024

\* The ten bits of the product at limb j.
LimbBits(b, k, j) == LowBits((Limb(b, j) * k + CarryOut(b, k, j - 1)) % 1024, 10)

\* The bits of b * k.
TimesBits(b, k) ==
    IntBits(BitsToInt(SubSeq(b, 1, 3)) * k + CarryOut(b, k, 5))
    \o LimbBits(b, k, 5) \o LimbBits(b, k, 4) \o LimbBits(b, k, 3)
    \o LimbBits(b, k, 2) \o LimbBits(b, k, 1)

\* x * k, for a natural number k in 2..2000000 (a double itself): the exact
\* product, rounded.
Times(x, k) ==
    IF x.nan \/ x.bits = <<>> THEN x
    ELSE RoundToDouble(TimesBits(x.bits, k), FALSE,
                       (x.exp - 52) + (Len(TimesBits(x.bits, k)) - 1))

\* x > y on doubles that are not negative; false when either is NaN.
Greater(x, y) ==
    IF x.nan \/ y.nan THEN FALSE
    ELSE IF x.bits = <<>> THEN FALSE
    ELSE IF y.bits = <<>> THEN TRUE
    ELSE IF x.exp # y.exp THEN x.exp > y.exp
    ELSE \E i \in 1..53 : /\ x.bits[i] > y.bits[i]
                           /\ \A j \in 1..(i - 1) : x.bits[j] = y.bits[j]

parseFloat(s) ==
    LET ni    == DigitPrefixLen(s)
        rest  == SubSeq(s, ni + 1, Len(s))
        hasPt == rest # <<>> /\ Head(rest) = "."
        nf    == IF hasPt THEN DigitPrefixLen(Tail(rest)) ELSE 0
        kept  == IF nf > 9 THEN 9 ELSE nf
        frac  == IF hasPt THEN SubSeq(Tail(rest), 1, kept) ELSE <<>>
    IN  IF ni = 0 /\ nf = 0 THEN NaN
        ELSE DecimalToDouble(DigitsToInt(SubSeq(s, 1, ni)), DigitsToInt(frac), kept)

(***************************************************************************)
(* Upstream records and transformModel.                                    *)
(* A raw record has slug and name; description, input_modalities,          *)
(* output_modalities, context_length and endpoint are tagged values        *)
(* (Undefined when the upstream record lacks them); endpoint, when         *)
(* present, is Obj([pricing |-> Undefined or Obj([prompt, completion,      *)
(* request, image |-> Undefined or Str])]).                                *)
(***************************************************************************)
\* (x ?? dflt: the default only for null and undefined)
OrElseNullish(x, dflt) == IF IsNullish(x) THEN dflt ELSE x.v

\* x || dflt for a tagged value x.
OrElse(x, dflt) == IF Truthy(x) THEN x.v ELSE dflt

\* raw.input_modalities?.join('+')
OptJoin(x, sep) ==
    IF IsNullish(x) THEN Undefined ELSE Str(join(x.v, sep))

\* raw.endpoint?.pricing?.<field>
OptPricing(raw, field) ==
    IF IsNullish(raw.endpoint) THEN Undefined
    ELSE IF IsNullish(raw.endpoint.v.pricing) THEN Undefined
    ELSE raw.endpoint.v.pricing.v[field]

transformModel(raw) ==
    LET inputModality  == OrElse(OptJoin(raw.input_modalities, sPlus), sText)
        outputModality == OrElse(OptJoin(raw.output_modalities, sPlus), sText)
        modalityString == inputModality \o sArrow \o outputModality
    IN  [id             |-> raw.slug,
         name           |-> raw.name,
         description    |-> OrElse(raw.description, <<>>),
         pricing        |-> [prompt     |-> OrElse(OptPricing(raw, "prompt"), sZero),
                             completion |-> OrElse(OptPricing(raw, "completion"), sZero),
                             request    |-> OrElse(OptPricing(raw, "request"), sZero),
                             image      |-> OrElse(OptPricing(raw, "image"), sZero)],
         context_length |-> OrElse(raw.context_length, 0),
         architecture   |-> [modality |-> modalityString]]

\* data.data.map(transformModel)
RECURSIVE mapTransformModel(_)
mapTransformModel(raws) ==
    IF raws = <<>> THEN <<>>
    ELSE <<transformModel(Head(raws))>> \o mapTransformModel(Tail(raws))

(***************************************************************************)
(* parseModalityString.                                                    *)
(***************************************************************************)
parseModalityString(modality) ==
    LET parts     == split(toLowerCase(modality), sArrow)
        inputStr  == parts[1]
        \* destructuring: undefined when split gave one piece
        outputStr == IF Len(parts) >= 2 THEN parts[2] ELSE <<>>
    IN  [inputs  |-> IF inputStr # <<>> THEN split(inputStr, sPlus) ELSE <<sText>>,
         outputs |-> IF outputStr # <<>> THEN split(outputStr, sPlus) ELSE <<sText>>]

(***************************************************************************)
(* DEFAULT_CONSTRAINTS.  A constraint object is the parsed JSON of the     *)
(* extraction call: a tagged value, Obj of a record of tagged fields when  *)
(* it is an object.  max_price_per_million is held in thousandths of a     *)
(* dollar per million tokens (1000 is $1/M): the number the filter sees is *)
(* the double nearest to that decimal, as JSON.parse produces it.          *)
(***************************************************************************)
DEFAULT_CONSTRAINTS ==
    Obj([input_modalities      |-> Arr(<<sText>>),
         output_modalities     |-> Arr(<<sText>>),
         min_context           |-> Num(0),
         max_price_per_million |-> Null,
         preferred_providers   |-> Arr(<<>>),
         excluded_providers    |-> Arr(<<>>),
         capability_keywords   |-> Arr(<<>>),
         exclude_keywords      |-> Arr(<<sEmbedding, sBase>>),
         speed_preference      |-> Str(sAny)])

(***************************************************************************)
(* filterModels.  The callback's outcome on one model is "keep", "drop"    *)
(* or "throw" (a TypeError, which aborts the whole filter call).  Each     *)
(* check is "pass", "drop" or "throw"; the checks run in source order and  *)
(* the first that does not pass decides.                                   *)
(***************************************************************************)
\* constraints.<f> on a value that is not null or undefined.
PropertyOf(c, f) ==
    IF c.t = "object" /\ f \in DOMAIN c.v THEN c.v[f] ELSE Undefined

\* x && x.length > 0
NonEmptyList(x) == Truthy(x) /\ x.t \in {"array", "string"} /\ Len(x.v) > 0

\* (the modality checks left out)
ModalityCheckSkipped(c, f, have, relaxLevel) == "pass"

\* 1., 2.  modality coverage (have: the model's parsed list)
ModalityCheck(c, f, have, relaxLevel) ==
    IF ~(relaxLevel < 2) THEN "pass"
    ELSE IF IsNullish(c) THEN "throw"
    ELSE LET required == PropertyOf(c, f)
         IN  IF ~NonEmptyList(required) THEN "pass"
             ELSE IF required.t # "array" THEN "throw"   \* .some is not a function
             ELSE IF ~(\E i \in 1..Len(required.v) : required.v[i] # sText) THEN "pass"
             ELSE IF \A i \in 1..Len(required.v) :
                        arrayIncludes(have, toLowerCase(required.v[i]))
                  THEN "pass" ELSE "drop"

\* (the context test applied at every level)
ContextCheckAtAnyLevel(c, m, relaxLevel) ==
    IF IsNullish(c) THEN "throw"
    ELSE LET x == PropertyOf(c, "min_context")
         IN  IF x.t = "number" /\ x.v # 0 /\ x.v > 0 /\ m.context_length < x.v
             THEN "drop" ELSE "pass"

\* 3.  context length
ContextCheck(c, m, relaxLevel) ==
    IF ~(relaxLevel < 1) THEN "pass"
    ELSE IF IsNullish(c) THEN "throw"
    ELSE LET x == PropertyOf(c, "min_context")
         IN  IF x.t = "number" /\ x.v # 0 /\ x.v > 0 /\ m.context_length < x.v
             THEN "drop" ELSE "pass"

\* (the price test without the guard on null: null compares as 0)
PriceCheckUnguarded(c, m, relaxLevel) ==
    IF ~(relaxLevel < 1) THEN "pass"
    ELSE IF IsNullish(c) THEN "throw"
    ELSE LET x == PropertyOf(c, "max_price_per_million")
             pricePerMillion == Times(parseFloat(m.pricing.prompt), 1000000)
         IN  IF x.t \in {"number", "null"}
                /\ Greater(pricePerMillion,
                           IF x.t = "null" THEN Zero
                           ELSE DecimalToDouble(x.v \div 1000, x.v % 1000, 3))
             THEN "drop" ELSE "pass"

\* 4.  price
PriceCheck(c, m, relaxLevel) ==
    IF ~(relaxLevel < 1) THEN "pass"
    ELSE IF IsNullish(c) THEN "throw"
    ELSE LET x == PropertyOf(c, "max_price_per_million")
             pricePerMillion == Times(parseFloat(m.pricing.prompt), 1000000)
         IN  IF x.t = "number"
                /\ Greater(pricePerMillion,
                           DecimalToDouble(x.v \div 1000, x.v % 1000, 3))
             THEN "drop" ELSE "pass"

\* some(prov => m.id.toLowerCase().startsWith(prov.toLowerCase()))
MatchesProvider(m, provs) ==
    \E i \in 1..Len(provs) : startsWith(toLowerCase(m.id), toLowerCase(provs[i]))

\* some(kw => modelText.includes(kw.toLowerCase()))
HasKeyword(modelText, kws) ==
    \E i \in 1..Len(kws) : includes(modelText, toLowerCase(kws[i]))

\* 5., 6.  provider lists: the model is dropped when "its id starts with one of
\* the prefixes" differs from `wanted`.
ProviderCheck(c, f, relaxedAt, relaxLevel, m, wanted) ==
    IF ~(relaxLevel < relaxedAt) THEN "pass"
    ELSE IF IsNullish(c) THEN "throw"
    ELSE LET x == PropertyOf(c, f)
         IN  IF ~NonEmptyList(x) THEN "pass"
             ELSE IF x.t # "array" THEN "throw"     \* .some is not a function
             ELSE IF MatchesProvider(m, x.v) = wanted THEN "pass" ELSE "drop"

\* 7., 8.  keyword lists: the model is dropped when "its text contains one of the
\* keywords" differs from `wanted`.
KeywordCheck(c, f, relaxedAt, relaxLevel, modelText, wanted) ==
    IF ~(relaxLevel < relaxedAt) THEN "pass"
    ELSE IF IsNullish(c) THEN "throw"
    ELSE LET x == PropertyOf(c, f)
         IN  IF ~NonEmptyList(x) THEN "pass"
             ELSE IF x.t # "array" THEN "throw"     \* .some is not a function
             ELSE IF HasKeyword(modelText, x.v) = wanted THEN "pass" ELSE "drop"

FirstOf(checks) ==
    IF \A i \in 1..Len(checks) : checks[i] = "pass" THEN "keep"
    ELSE checks[CHOOSE i \in 1..Len(checks) :
                    checks[i] # "pass" /\ \A j \in 1..(i - 1) : checks[j] = "pass"]

FilterCallback(m, c, relaxLevel) ==
    LET parsed    == parseModalityString(m.architecture.modality)
        modelText == toLowerCase(m.name \o sSpace \o m.description \o sSpace \o m.id)
    IN  FirstOf(<<
          ModalityCheck(c, "input_modalities", parsed.inputs, relaxLevel),
          ModalityCheck(c, "output_modalities", parsed.outputs, relaxLevel),
          ContextCheck(c, m, relaxLevel),
          PriceCheck(c, m, relaxLevel),
          ProviderCheck(c, "preferred_providers", 1, relaxLevel, m, TRUE),
          ProviderCheck(c, "excluded_providers", 2, relaxLevel, m, FALSE),
          KeywordCheck(c, "capability_keywords", 1, relaxLevel, modelText, TRUE),
          KeywordCheck(c, "exclude_keywords", 2, relaxLevel, modelText, FALSE) >>)

\* Array.prototype.filter with the callback's outcomes given: a new array of the
\* kept elements from position i on, in order.
RECURSIVE KeepFrom(_, _, _)
KeepFrom(models, outcomes, i) ==
    IF i > Len(models) THEN <<>>
    ELSE (IF outcomes[i] = "keep" THEN <<models[i]>> ELSE <<>>)
         \o KeepFrom(models, outcomes, i + 1)

\* The result of a call that may throw: [threw, value].
Threw == [threw |-> TRUE, value |-> <<>>]
Returned(x) == [threw |-> FALSE, value |-> x]

\* models.filter(callback), the callback's outcome on each element given: a
\* throw of the callback ends the call.
FilterWith(models, outcomes) ==
    IF \E i \in 1..Len(models) : outcomes[i] = "throw"
    THEN Threw
    ELSE Returned(KeepFrom(models, outcomes, 1))

filterModels(models, constraints, relaxLevel) ==
    FilterWith(models, [i \in 1..Len(models) |->
                          FilterCallback(models[i], constraints, relaxLevel)])

(***************************************************************************)
(* filterModelsWithFallback.                                               *)
(***************************************************************************)
\* The final fallback's callback: the modality string contains "text".
TextCapable(m) ==
    LET modality == IF m.architecture.modality # <<>>
                    THEN m.architecture.modality ELSE sTextToText
    IN  includes(modality, sText)

RECURSIVE FilterTextCapable(_)
FilterTextCapable(models) ==
    IF models = <<>> THEN <<>>
    ELSE (IF TextCapable(Head(models)) THEN <<Head(models)>> ELSE <<>>)
         \o FilterTextCapable(Tail(models))

\* FilterResult when the candidates array is the models array itself.
FilterResultAliased(cands, level) ==
    Returned([candidates |-> cands, relaxLevel |-> level, sameArray |-> TRUE])

\* The filter's answer.  sameArray: the candidates array is the models array
\* itself; Array.prototype.filter always builds a new array.
FilterResult(cands, level) ==
    Returned([candidates |-> cands, relaxLevel |-> level, sameArray |-> FALSE])

\* ReturnIfEnough with the test candidates.length > minCandidates.
ReturnIfMore(filtered, minCandidates, level, otherwise) ==
    IF filtered.threw THEN Threw
    ELSE IF Len(filtered.value) > minCandidates
    THEN FilterResult(filtered.value, level)
    ELSE otherwise

\* if (candidates.length >= minCandidates) return { candidates, relaxLevel }
\* after the filterModels call of a level; otherwise the function goes on.
ReturnIfEnough(filtered, minCandidates, level, otherwise) ==
    IF filtered.threw THEN Threw
    ELSE IF Len(filtered.value) >= minCandidates
    THEN FilterResult(filtered.value, level)
    ELSE otherwise

\* filterModelsWithFallback without its level-2 attempt.
filterModelsWithFallbackTwoLevels(models, constraints, minCandidates) ==
    ReturnIfEnough(filterModels(models, constraints, 0), minCandidates, 0,
    ReturnIfEnough(filterModels(models, constraints, 1), minCandidates, 1,
    FilterResult(FilterTextCapable(models), 3)))

filterModelsWithFallback(models, constraints, minCandidates) ==
    ReturnIfEnough(filterModels(models, constraints, 0), minCandidates, 0,
    ReturnIfEnough(filterModels(models, constraints, 1), minCandidates, 1,
    ReturnIfEnough(filterModels(models, constraints, 2), minCandidates, 2,
    FilterResult(FilterTextCapable(models), 3))))

(***************************************************************************)
(* Upstream records the model draws catalogs from, and constraint objects  *)
(* the extraction call may answer with.                                    *)
(***************************************************************************)
Pricing(prompt) ==
    Obj([pricing |-> Obj([prompt |-> Str(prompt), completion |-> Str(prompt),
                          request |-> Undefined, image |-> Undefined])])

RawPool == <<
    \* openai/g: text+image->text, 128000 tokens, $5/M
    [slug |-> sOpenai \o <<"/","g">>, name |-> <<"G"," ">> \o sChat,
     description |-> Undefined,
     input_modalities |-> Arr(<<sText, sImage>>), output_modalities |-> Arr(<<sText>>),
     context_length |-> Num(128000),
     endpoint |-> Pricing(<<"0",".","0","0","0","0","0","5">>)],
    \* meta-llama/l: no modality lists, no endpoint
    [slug |-> sMetaLlama \o <<"/","l">>, name |-> <<"L"," ">> \o sChat,
     description |-> Str(<<"f","a","s","t">>),
     input_modalities |-> Undefined, output_modalities |-> Undefined,
     context_length |-> Num(8000),
     endpoint |-> Undefined],
    \* OpenAI/e: an embedding model, $0.5/M
    [slug |-> <<"O","p","e","n","A","I","/","e">>, name |-> <<"E"," ">> \o sEmbedding,
     description |-> Undefined,
     input_modalities |-> Arr(<<sText>>), output_modalities |-> Arr(<<sEmbeddings>>),
     context_length |-> Num(8000),
     endpoint |-> Pricing(<<"0",".","0","0","0","0","0","0","5">>)],
    \* x/d: image->image, no context length, endpoint without pricing
    [slug |-> <<"x","/","d">>, name |-> <<"D">>,
     description |-> Undefined,
     input_modalities |-> Arr(<<sImage>>), output_modalities |-> Arr(<<sImage>>),
     context_length |-> Undefined,
     endpoint |-> Obj([pricing |-> Undefined])],
    \* mistral/m: a base model, empty modality lists, $1/M
    [slug |-> sMistral \o <<"/","m">>, name |-> <<"M"," ">> \o sBase,
     description |-> Str(sChat),
     input_modalities |-> Arr(<<>>), output_modalities |-> Arr(<<>>),
     context_length |-> Num(32000),
     endpoint |-> Pricing(<<"0",".","0","0","0","0","0","1">>)],
    \* x/p: text->text, $0.57/M
    [slug |-> <<"x","/","p">>, name |-> <<"P">>,
     description |-> Undefined,
     input_modalities |-> Arr(<<sText>>), output_modalities |-> Arr(<<sText>>),
     context_length |-> Num(8000),
     endpoint |-> Pricing(<<"0",".","0","0","0","0","0","0","5","7">>)] >>

Constraints(inp, out, ctx, price, pref, excl, cap, exkw) ==
    Obj([input_modalities      |-> Arr(inp),
         output_modalities     |-> Arr(out),
         min_context           |-> Num(ctx),
         max_price_per_million |-> price,
         preferred_providers   |-> Arr(pref),
         excluded_providers    |-> Arr(excl),
         capability_keywords   |-> Arr(cap),
         exclude_keywords      |-> Arr(exkw),
         speed_preference      |-> Str(sAny)])

\* Constraint objects that conform to the ExtractedConstraints schema.
ConstraintSets == {
    DEFAULT_CONSTRAINTS,
    \* no requirement at all
    Constraints(<<>>, <<>>, 0, Null, <<>>, <<>>, <<>>, <<>>),
    \* "Analyze images of receipts"
    Constraints(<<sText, sImage>>, <<sText>>, 0, Null, <<>>, <<>>, <<>>, <<sEmbedding>>),
    \* "like ChatGPT but open source and cheap"
    Constraints(<<sText>>, <<sText>>, 0, Num(1000), <<sMetaLlama, sMistral>>,
                <<sOpenai>>, <<sChat>>, <<sEmbedding>>),
    \* "Generate embeddings", long context
    Constraints(<<sText>>, <<sEmbeddings>>, 32000, Null, <<>>, <<>>, <<sEmbedding>>, <<>>),
    \* an input modality no catalog entry has
    Constraints(<<<<"a","u","d","i","o">>>>, <<sText>>, 0, Null, <<>>, <<>>, <<>>, <<>>),
    \* a price cap alone: $1/M, $0.57/M
    Constraints(<<>>, <<>>, 0, Num(1000), <<>>, <<>>, <<>>, <<>>),
    Constraints(<<>>, <<>>, 0, Num(570), <<>>, <<>>, <<>>, <<>>) }

\* The catalog made of the pool's records at the positions in S, in pool order.
RECURSIVE RawCatalogFrom(_, _)
RawCatalogFrom(S, i) ==
    IF i > Len(RawPool) THEN <<>>
    ELSE (IF i \in S THEN <<RawPool[i]>> ELSE <<>>) \o RawCatalogFrom(S, i + 1)

FilterCatalogs ==
    { mapTransformModel(RawCatalogFrom(S, 1)) :
        S \in {T \in SUBSET (1..Len(RawPool)) : Cardinality(T) <= MaxCatalog} }

(***************************************************************************)
(* The filter as a pure function: its inputs are drawn, then it is applied.*)
(***************************************************************************)
VARIABLES fModels, fConstraints, fMinCandidates, fResult

filterVars == <<fModels, fConstraints, fMinCandidates, fResult>>

NoResult == [threw |-> FALSE,
             value |-> [candidates |-> <<>>, relaxLevel |-> -1, sameArray |-> FALSE]]

FilterInit ==
    /\ fModels \in FilterCatalogs
    /\ fConstraints \in ConstraintSets
    /\ fMinCandidates \in 0..MaxMinCandidates
    /\ fResult = NoResult

FilterApply ==
    /\ fResult = NoResult
    /\ fResult' = filterModelsWithFallback(fModels, fConstraints, fMinCandidates)
    /\ UNCHANGED <<fModels, fConstraints, fMinCandidates>>

FilterNewInput ==
    /\ fResult # NoResult
    /\ fModels' \in FilterCatalogs
    /\ fConstraints' \in ConstraintSets
    /\ fMinCandidates' \in 0..MaxMinCandidates
    /\ fResult' = NoResult


(***************************************************************************)
(* Limiting the candidates for the ranking stage: a stable sort by         *)
(* provider priority, then slice(0, 50).                                   *)
(***************************************************************************)
MaxRankCandidates == 50

providerOrder == <<sOpenai, sAnthropic, sGoogle, sMetaLlama, sMistral>>

\* providerOrder.findIndex(p => id.toLowerCase().startsWith(p)), -1 mapped to 999
ProviderPriority(m) ==
    LET id == toLowerCase(m.id)
    IN  IF \E i \in 1..Len(providerOrder) : startsWith(id, providerOrder[i])
        THEN (CHOOSE i \in 1..Len(providerOrder) :
                 /\ startsWith(id, providerOrder[i])
                 /\ \A j \in 1..(i - 1) : ~startsWith(id, providerOrder[j])) - 1
        ELSE 999

\* The elements of ms whose priority is in P, in order.
RECURSIVE WithPriority(_, _)
WithPriority(ms, P) ==
    IF ms = <<>> THEN <<>>
    ELSE (IF ProviderPriority(Head(ms)) \in P THEN <<Head(ms)>> ELSE <<>>)
         \o WithPriority(Tail(ms), P)

\* (the limiting block without its sort)
SortByProviderSkipped(ms) == ms

\* Array.prototype.sort with the provider comparator (the sort is stable).
SortByProvider(ms) ==
    WithPriority(ms, {0}) \o WithPriority(ms, {1}) \o WithPriority(ms, {2})
    \o WithPriority(ms, {3}) \o WithPriority(ms, {4}) \o WithPriority(ms, {999})

\* The limiting block without its slice.
LimitCandidatesUncut(cands) ==
    IF Len(cands) > MaxRankCandidates
    THEN SortByProvider(cands)
    ELSE cands

\* candidates after the limiting block
LimitCandidates(cands) ==
    IF Len(cands) > MaxRankCandidates
    THEN SubSeq(SortByProvider(cands), 1, MaxRankCandidates)
    ELSE cands

\* modelListForAI ids
RECURSIVE IdsOf(_)
IdsOf(ms) == IF ms = <<>> THEN <<>> ELSE <<Head(ms).id>> \o IdsOf(Tail(ms))

(***************************************************************************)
(* The server: the model cache, the clock, and the requests in flight.     *)
(***************************************************************************)
MODEL_CACHE_TTL == 6 * 60 * 60 * 1000

\* The clock advances in steps of three hours.
ClockStep == 3 * 60 * 60 * 1000

DefaultMinCandidates == 10

Requests == 1..MaxRequests

VARIABLES
    now,            \* Date.now()
    cachedModels,   \* Null or Arr(catalog)
    cacheTimestamp, \* Null or Num(time)
    req,            \* the request handled on each connection
    lastRefresh     \* history: how the last finished upstream fetch ended

\* The browser side (openRouterService.ts).
VARIABLES
    idb,            \* the IndexedDB key-value store of idb-keyval
    clientNow,      \* Date.now() in the browser
    call,           \* the service call each browser task is in
    cleared         \* history: a clearCache completed and nothing was stored since

\* parseModalityString as a pure function: its argument and its result.
VARIABLES pmInput, pmResult

VARIABLES tmRaw, tmResult

transformVars == <<tmRaw, tmResult>>
VARIABLES hcUseCase, hcResult

heuristicVars == <<hcUseCase, hcResult>>
VARIABLES
    numRecommendations, \* settings.numRecommendations
    isLoading,          \* App state isLoading
    loadingStage,       \* App state loadingStage: "null" or a ProgressStage
    uiError,            \* App state error: "null" or which message it holds
    haveModels,         \* allModels.length > 0
    uiRecommend,        \* the handleGetRecommendations calls, by number
    uiTimers,           \* the setTimeout callbacks of getModelRecommendations not yet run
    uiMount,            \* the loadModels() call of the mount effect
    uiRefresh,          \* the Settings handler in progress and its loadModels(true)
    statusMessage,      \* Settings state statusMessage
    storeHasCatalog     \* the browser store holds a fresh catalog

appVars == <<numRecommendations, isLoading, loadingStage, uiError, haveModels,
             uiRecommend, uiTimers, uiMount, uiRefresh, statusMessage, storeHasCatalog>>
serverVars == <<now, cachedModels, cacheTimestamp, req, lastRefresh>>
clientVars == <<idb, clientNow, call, cleared>>
parseVars == <<pmInput, pmResult>>
vars == <<now, cachedModels, cacheTimestamp, req, lastRefresh,
          fModels, fConstraints, fMinCandidates, fResult,
          idb, clientNow, call, cleared, pmInput, pmResult,
          tmRaw, tmResult,
          hcUseCase, hcResult,
          numRecommendations, isLoading, loadingStage, uiError, haveModels, uiRecommend, uiTimers, uiMount, uiRefresh, statusMessage, storeHasCatalog>>

NoMeta == [totalModels |-> 0, afterFiltering |-> 0, relaxLevel |-> -1,
           candidatesRanked |-> 0]
NoBody == [error |-> FALSE, recommendations |-> Undefined, metadata |-> NoMeta]
ErrorBody == [error |-> TRUE, recommendations |-> Undefined, metadata |-> NoMeta]

\* A connection with no request.  Fields of a request:
\*   pc          idle, fetching (awaiting the upstream fetch), extracting (awaiting
\*               the extraction call), ranking (awaiting the ranking call), done
\*   route       recommend (POST /api/recommend) or models (GET /api/models)
\*   now         the time getModels read (while its fetch is outstanding)
\*   models      the array getModels returned (while the handler still reads it,
\*               and as the data of a /api/models response)
\*   own         models is the very array object cachedModels refers to
\*   ts          the cacheTimestamp getModels saw when it answered from the cache
\*   retry       the fetch was issued after a failed one
\*   useCase     req.body.useCase
\*   constraints stage 1's result
\*   extraction  how the extraction call ended: failed, or JSON that is
\*               conforming to / violating the response schema
\*   ranking     how the ranking call ended: failed, shaped (JSON of the
\*               recommendations shape) or unshaped
\*   sent        ids of the candidates given to the ranking call
\*   meta        afterFiltering, relaxLevel, ... of stage 2
\*   work        the downstream work done for the request
\*   status, body              the HTTP response
IdleReq ==
    [pc |-> "idle", route |-> "none", now |-> 0, models |-> <<>>, own |-> FALSE,
     ts |-> 0, retry |-> FALSE, useCase |-> Undefined,
     constraints |-> Undefined, extraction |-> "none", ranking |-> "none",
     sent |-> <<>>, meta |-> NoMeta, work |-> {}, status |-> 0, body |-> NoBody]

\* res.status(code).json(body): the handler is over, its locals are gone.
Respond(q, code, body) ==
    [IdleReq EXCEPT !.pc = "done", !.route = q.route, !.status = code, !.body = body,
                    !.work = q.work, !.sent = q.sent, !.useCase = q.useCase,
                    !.extraction = q.extraction, !.ranking = q.ranking,
                    !.models = IF q.route = "models" THEN q.models ELSE <<>>,
                    !.ts = IF q.route = "models" THEN q.ts ELSE 0]

(***************************************************************************)
(* What the outside world may answer.                                      *)
(***************************************************************************)
NumStr(i) == IF i < 10 THEN <<Digits[i + 1]>>
             ELSE <<Digits[(i \div 10) + 1], Digits[(i % 10) + 1]>>

\* A catalog longer than the ranking limit: every seventh entry (3, 10, ..., 52:
\* one of them beyond the limit) is of a known
\* provider, the others are not.
BigProviders == <<sOpenai, sMistral, sGoogle, sMetaLlama, sAnthropic>>

BigRaw(i) ==
    [slug |-> (IF i % 7 = 3 THEN BigProviders[((i \div 7) % Len(BigProviders)) + 1]
               ELSE <<"x">>) \o <<"/">> \o NumStr(i),
     name |-> NumStr(i), description |-> Undefined,
     input_modalities |-> Undefined, output_modalities |-> Undefined,
     context_length |-> Num(8000), endpoint |-> Undefined]

BigRawCatalog == [i \in 1..BigCatalogSize |-> BigRaw(i)]

ServerRawCatalogs ==
    { RawCatalogFrom({1, 2, 3, 5}, 1), RawCatalogFrom({4}, 1), BigRawCatalog }

\* The upstream fetch: response.ok, whether response.json() resolves, its value.
UpstreamResponses ==
    { [ok |-> FALSE, parses |-> TRUE, json |-> Null],
      [ok |-> TRUE, parses |-> FALSE, json |-> Null],
      [ok |-> TRUE, parses |-> TRUE, json |-> Obj([data |-> Undefined])] }
    \cup { [ok |-> TRUE, parses |-> TRUE, json |-> Obj([data |-> Arr(c)])] :
             c \in ServerRawCatalogs }

\* A constraint object with a field of the wrong type (a string for a list).
BadTypeConstraints ==
    Obj([input_modalities      |-> Str(sImage),
         output_modalities     |-> Arr(<<sText>>),
         min_context           |-> Num(0),
         max_price_per_million |-> Null,
         preferred_providers   |-> Arr(<<>>),
         excluded_providers    |-> Arr(<<>>),
         capability_keywords   |-> Arr(<<>>),
         exclude_keywords      |-> Arr(<<>>),
         speed_preference      |-> Str(sAny)])

\* A generative call: it rejects ("error": API error or timeout), resolves with
\* no text ("notext"), with text that is not JSON ("invalid"), or with JSON.
Failure(kind) == [kind |-> kind, value |-> Undefined]
Json(v) == [kind |-> "json", value |-> v]

ExtractionOutcomes ==
    { Failure("error"), Failure("notext"), Failure("invalid") }
    \cup { Json(v) : v \in {
             Constraints(<<sText>>, <<sText>>, 0, Num(1000), <<sMetaLlama, sMistral>>,
                         <<sOpenai>>, <<sChat>>, <<sEmbedding>>),
             Constraints(<<<<"a","u","d","i","o">>>>, <<sText>>, 0, Null,
                         <<>>, <<>>, <<>>, <<>>),
             Null, BadTypeConstraints } }

sHallucinated == <<"n","o","/","s","u","c","h">>
Recs(id) == Obj([recommendations |-> Arr(<<[model_id |-> id, reason |-> <<"f","i","t">>]>>)])

RankingOutcomes(sent) ==
    { Failure("error"), Failure("notext"), Failure("invalid"),
      Json(Null), Json(Obj([recommendations |-> Undefined])), Json(Recs(sHallucinated)) }
    \cup (IF sent = <<>> THEN {} ELSE { Json(Recs(sent[1])) })

\* JSON.parse(response.text.trim()) of a generative call's outcome.
ParseOutcome(out) ==
    IF out.kind = "json" THEN Returned(out.value) ELSE Threw

\* The extraction call's responseSchema: an object whose required fields have
\* the declared types.
IsA(x, type) == x.t = type

ConformsToSchema(v) ==
    /\ IsA(v, "object")
    /\ IsA(PropertyOf(v, "input_modalities"), "array")
    /\ IsA(PropertyOf(v, "output_modalities"), "array")
    /\ IsA(PropertyOf(v, "min_context"), "number")
    /\ PropertyOf(v, "max_price_per_million").t \in {"number", "null", "undefined"}
    /\ PropertyOf(v, "preferred_providers").t \in {"array", "undefined"}
    /\ PropertyOf(v, "excluded_providers").t \in {"array", "undefined"}
    /\ IsA(PropertyOf(v, "capability_keywords"), "array")
    /\ IsA(PropertyOf(v, "exclude_keywords"), "array")
    /\ IsA(PropertyOf(v, "speed_preference"), "string")

ExtractionClass(out) ==
    IF out.kind # "json" THEN "failed"
    ELSE IF ConformsToSchema(out.value) THEN "conforming" ELSE "violating"

\* The ranking call's responseSchema: an object with a recommendations list.
HasRecommendationsShape(v) ==
    IsA(v, "object") /\ IsA(PropertyOf(v, "recommendations"), "array")

RankingClass(out) ==
    IF out.kind # "json" THEN "failed"
    ELSE IF HasRecommendationsShape(out.value) THEN "shaped" ELSE "unshaped"

\* extractConstraintsWithLLM without its catch block.
extractConstraintsUncaught(out) ==
    IF ParseOutcome(out).threw
    THEN Threw
    ELSE Returned(out.value)

(***************************************************************************)
(* extractConstraintsWithLLM, given the generative call's outcome.         *)
(***************************************************************************)
extractConstraintsWithLLM(out) ==
    IF ParseOutcome(out).threw
    THEN Returned(DEFAULT_CONSTRAINTS)     \* catch: return DEFAULT_CONSTRAINTS
    ELSE Returned(out.value)

(***************************************************************************)
(* getModels.                                                              *)
(***************************************************************************)
\* (the cache test without the age test)
CacheValidForever(t) ==
    /\ Truthy(cachedModels)
    /\ Truthy(cacheTimestamp)

\* cachedModels && cacheTimestamp && (now - cacheTimestamp < MODEL_CACHE_TTL)
CacheValid(t) ==
    /\ Truthy(cachedModels)
    /\ Truthy(cacheTimestamp)
    /\ t - cacheTimestamp.v < MODEL_CACHE_TTL

\* The upstream call did not return success, or its body is not JSON with a
\* data list.
UpstreamFailed(resp) ==
    \/ ~resp.ok
    \/ ~resp.parses
    \/ ~IsA(PropertyOf(resp.json, "data"), "array")

\* RefreshResult when a body without a data list is taken as an empty catalog.
RefreshResultLenient(resp) ==
    IF ~resp.ok THEN Threw
    ELSE IF ~resp.parses THEN Threw
    ELSE IF IsNullish(resp.json) THEN Threw
    ELSE IF ~IsA(PropertyOf(resp.json, "data"), "array") THEN Returned(<<>>)
    ELSE Returned(mapTransformModel(PropertyOf(resp.json, "data").v))

\* The part of getModels after the fetch resolved: the new cache contents, or a throw.
RefreshResult(resp) ==
    IF ~resp.ok THEN Threw                                \* throw new Error(...)
    ELSE IF ~resp.parses THEN Threw                       \* response.json() rejects
    ELSE IF IsNullish(resp.json) THEN Threw               \* data.data of null
    ELSE IF ~IsA(PropertyOf(resp.json, "data"), "array") THEN Threw   \* no .map
    ELSE Returned(mapTransformModel(PropertyOf(resp.json, "data").v))

\* cachedModels = ...; cacheTimestamp = now
CacheWrite(c, t) ==
    /\ cachedModels' = Arr(c)
    /\ cacheTimestamp' = Num(t)

(***************************************************************************)
(* The handlers, one action per run between two awaits.                    *)
(***************************************************************************)
\* AfterGetModels when /api/recommend issues the ranking call on the whole
\* catalog without waiting for the extraction call.
AfterGetModelsSkipsExtraction(q) ==
    IF q.route = "models" THEN Respond(q, 200, NoBody)
    ELSE IF ~IsA(q.useCase, "string") THEN Respond(q, 500, ErrorBody)
    ELSE [q EXCEPT !.pc = "ranking", !.sent = IdsOf(q.models),
                   !.work = @ \cup {"rank"}]

\* The handler goes on after getModels returned q.models: /api/models answers;
\* /api/recommend reads useCase.substring (a TypeError unless useCase is a
\* string) and issues the extraction call.
AfterGetModels(q) ==
    IF q.route = "models" THEN Respond(q, 200, NoBody)
    ELSE IF ~IsA(q.useCase, "string") THEN Respond(q, 500, ErrorBody)
    ELSE [q EXCEPT !.pc = "extracting", !.work = @ \cup {"extract"}]

\* getModels up to its return or its await.
GetModelsCall(q) ==
    IF CacheValid(now)
    THEN AfterGetModels([q EXCEPT !.models = cachedModels.v,
                                  !.own = TRUE,
                                  !.ts = cacheTimestamp.v,
                                  !.work = @ \cup {"cache"}])
    ELSE [q EXCEPT !.pc = "fetching", !.now = now,
                   !.retry = (lastRefresh = "failed"),
                   !.work = @ \cup {"cache", "fetch"}]

\* RecommendStart without the useCase test.
RecommendStartUnchecked(q, useCase) ==
    GetModelsCall(q)

\* POST /api/recommend arrives with body {useCase}.
RecommendStart(q, useCase) ==
    IF ~Truthy(useCase)
    THEN Respond(q, 400, ErrorBody)
    ELSE GetModelsCall(q)

UseCases == { Undefined, Str(<<>>), Str(sChat), Num(5) }

RecommendReceive(r) ==
    /\ req[r].pc = "idle"
    /\ \E useCase \in UseCases :
         req' = [req EXCEPT ![r] =
                   RecommendStart([IdleReq EXCEPT !.route = "recommend",
                                                  !.useCase = useCase], useCase)]
    /\ UNCHANGED <<now, cachedModels, cacheTimestamp, lastRefresh>>

ModelsReceive(r) ==
    /\ req[r].pc = "idle"
    /\ req' = [req EXCEPT ![r] = GetModelsCall([IdleReq EXCEPT !.route = "models"])]
    /\ UNCHANGED <<now, cachedModels, cacheTimestamp, lastRefresh>>

\* The upstream fetch of request r resolves: getModels throws, or stores the
\* catalog and returns it.  The array the cache held before is now held only
\* by the requests that got it.
FetchResponds(r) ==
    /\ req[r].pc = "fetching"
    /\ \E resp \in UpstreamResponses : \E res \in {RefreshResult(resp)} :
         /\ lastRefresh' = IF UpstreamFailed(resp) THEN "failed" ELSE "ok"
         /\ IF res.threw
            THEN /\ req' = [req EXCEPT ![r] = Respond(@, 500, ErrorBody)]
                 /\ UNCHANGED <<cachedModels, cacheTimestamp>>
            ELSE /\ CacheWrite(res.value, req[r].now)
                 /\ req' = [q \in Requests |->
                              IF q = r
                              THEN AfterGetModels([req[r] EXCEPT !.models = res.value,
                                                                 !.own = TRUE,
                                                                 !.ts = req[r].now,
                                                                 !.now = 0,
                                                                 !.retry = FALSE])
                              ELSE [req[q] EXCEPT !.own = FALSE]]
    /\ UNCHANGED now

\* Stage 2 and the limiting block, on the constraints stage 1 gave.
\* [threw, value: [candidates (limited), afterFiltering, relaxLevel, sortedCache]]
\* sortedCache: the in-place sort ran on the models array itself.
LimitStage(fr) ==
    IF fr.threw THEN Threw
    ELSE Returned([candidates     |-> LimitCandidates(fr.value.candidates),
                   afterFiltering |-> Len(fr.value.candidates),
                   relaxLevel     |-> fr.value.relaxLevel,
                   sortedInput    |-> fr.value.sameArray
                                      /\ Len(fr.value.candidates) > MaxRankCandidates])

FilterStage(models, constraints) ==
    LimitStage(filterModelsWithFallback(models, constraints, DefaultMinCandidates))

\* FilterStage on the catalogs and constraint objects the server meets, computed
\* once; FilterStageOf is FilterStage.
ServerCatalogs == { mapTransformModel(c) : c \in ServerRawCatalogs }

ServerConstraintValues ==
    { DEFAULT_CONSTRAINTS } \cup { out.value : out \in {o \in ExtractionOutcomes : o.kind = "json"} }

FilterStageTable ==
    { [models |-> c, constraints |-> k, result |-> FilterStage(c, k)] :
        c \in ServerCatalogs, k \in ServerConstraintValues }

FirstOrCompute(entries, models, constraints) ==
    IF entries # {} THEN (CHOOSE e \in entries : TRUE).result
    ELSE FilterStage(models, constraints)

FilterStageOf(models, constraints) ==
    FirstOrCompute({e \in FilterStageTable :
                       e.models = models /\ e.constraints = constraints},
                   models, constraints)

\* The request after stage 2 and the limiting block gave fs: the ranking call
\* is issued.
ToRanking(q, fs) ==
    [q EXCEPT !.pc = "ranking",
              !.models = <<>>, !.own = FALSE, !.ts = 0,
              !.sent = IdsOf(fs.candidates),
              !.meta = [totalModels      |-> Len(q.models),
                        afterFiltering   |-> fs.afterFiltering,
                        relaxLevel       |-> fs.relaxLevel,
                        candidatesRanked |-> Len(fs.candidates)],
              !.work = @ \cup {"filter", "rank"}]

\* candidates.sort(...) ran on the array object q.models itself: whoever holds
\* that array sees it sorted.
SortedInPlace(q, x) ==
    IF x.own THEN [x EXCEPT !.models = SortByProvider(q.models)] ELSE x

\* The extraction call of request r resolves or rejects; the handler runs up to
\* the ranking call.
ExtractionResponds(r) ==
    /\ req[r].pc = "extracting"
    /\ \E out \in ExtractionOutcomes :
         \E ex \in {extractConstraintsWithLLM(out)} :
         \E q \in {[req[r] EXCEPT !.extraction = ExtractionClass(out),
                                  !.constraints = IF ex.threw THEN Undefined
                                                  ELSE ex.value]} :
           IF ex.threw
           THEN /\ req' = [req EXCEPT ![r] = Respond(q, 500, ErrorBody)]
                /\ UNCHANGED cachedModels
           ELSE \E fs \in {FilterStageOf(q.models, q.constraints)} :
                  IF fs.threw
                  THEN /\ req' = [req EXCEPT ![r] =
                                    Respond([q EXCEPT !.work = @ \cup {"filter"}],
                                            500, ErrorBody)]
                       /\ UNCHANGED cachedModels
                  ELSE IF fs.value.sortedInput /\ q.own
                  THEN /\ req' = [x \in Requests |->
                                    IF x = r THEN ToRanking(q, fs.value)
                                    ELSE SortedInPlace(q, req[x])]
                       /\ cachedModels' = Arr(SortByProvider(q.models))
                  ELSE /\ req' = [req EXCEPT ![r] = ToRanking(q, fs.value)]
                       /\ UNCHANGED cachedModels
    /\ UNCHANGED <<now, cacheTimestamp, lastRefresh>>

\* The ranking call of request r resolves or rejects; the handler parses the
\* text, builds the metadata (it reads the constraints' fields) and answers.
RankingResponds(r) ==
    /\ req[r].pc = "ranking"
    /\ \E out \in RankingOutcomes(req[r].sent) :
         \E q \in {[req[r] EXCEPT !.ranking = RankingClass(out)]} :
           req' = [req EXCEPT ![r] =
                     IF \/ ParseOutcome(out).threw
                        \/ IsNullish(q.constraints)
                        \/ IsNullish(out.value)
                     THEN Respond(q, 500, ErrorBody)
                     ELSE Respond(q, 200,
                                  [error |-> FALSE,
                                   recommendations |->
                                       PropertyOf(out.value, "recommendations"),
                                   metadata |-> q.meta])]
    /\ UNCHANGED <<now, cachedModels, cacheTimestamp, lastRefresh>>

\* The response is out; the connection takes the next request.
Close(r) ==
    /\ req[r].pc = "done"
    /\ req' = [req EXCEPT ![r] = IdleReq]
    /\ UNCHANGED <<now, cachedModels, cacheTimestamp, lastRefresh>>

Tick ==
    /\ now < MaxTicks * ClockStep
    /\ now' = now + ClockStep
    /\ UNCHANGED <<cachedModels, cacheTimestamp, req, lastRefresh>>

ServerInit ==
    /\ now = ClockStep
    /\ cachedModels = Null
    /\ cacheTimestamp = Null
    /\ req = [r \in Requests |-> IdleReq]
    /\ lastRefresh = "none"

(***************************************************************************)
(* The browser's catalog cache (openRouterService.ts): two entries of the  *)
(* IndexedDB store, read and written one awaited operation at a time.      *)
(* Every awaited operation takes effect and resumes its caller in one      *)
(* step, or rejects and changes nothing.                                   *)
(***************************************************************************)
CACHE_KEY == "llm_compass_models_cache"
CACHE_TIMESTAMP_KEY == "llm_compass_models_timestamp"
CACHE_TTL == 72 * 60 * 60 * 1000

\* The browser clock advances in steps of 36 hours.
ClientClockStep == 36 * 60 * 60 * 1000

Tasks == 1..MaxTasks

\* Number.prototype.toString of a natural number.
RECURSIVE toString(_)
toString(n) ==
    IF n < 10 THEN <<Digits[n + 1]>>
    ELSE toString(n \div 10) \o <<Digits[(n % 10) + 1]>>

\* parseInt(s, 10) of a string without sign or leading blanks: [nan, int].
parseInt(s) ==
    IF DigitPrefixLen(s) = 0 THEN [nan |-> TRUE, int |-> 0]
    ELSE [nan |-> FALSE, int |-> DigitsToInt(SubSeq(s, 1, DigitPrefixLen(s)))]

\* JSON.stringify(v): the string that is the JSON text of v.
JSONstringify(v) == Str(<<"json", v>>)

\* JSON.parse of a stored string: the value a JSON text encodes, a SyntaxError
\* for any other string.
JSONparse(x) ==
    IF x.t = "string" /\ Len(x.v) = 2 /\ x.v[1] = "json"
    THEN Returned(x.v[2])
    ELSE Threw

\* A string that is neither a JSON text nor a number.
sCorrupt == <<"?">>

\* Catalogs given to cacheModels.
ClientCatalogs ==
    { mapTransformModel(RawCatalogFrom({1}, 1)),
      mapTransformModel(RawCatalogFrom({2, 3}, 1)) }

\* idb-keyval: get resolves with the stored value or undefined; set and del
\* resolve when the entry is written or removed.
IdbGet(store, key) == store[key]
IdbSet(store, key, value) == [store EXCEPT ![key] = value]
\* (a del that resolves without removing the entry)
IdbDelKeeps(store, key) == store
IdbDel(store, key) == [store EXCEPT ![key] = Undefined]

\* A task with no call.  Fields of a call:
\*   op              none, getCachedModels, clearCache or cacheModels
\*   pc              the awaited operation the call is at, or done
\*   models          cacheModels' argument
\*   storedModels, storedTimestamp    getCachedModels' locals
\*   result          what the call returned (Threw: it rejected)
\*   afterClear      history: the call started after a clearCache completed and
\*                   nothing was stored from then until now
IdleCall ==
    [op |-> "none", pc |-> "idle", models |-> <<>>,
     storedModels |-> Undefined, storedTimestamp |-> Undefined,
     result |-> Returned(Undefined), afterClear |-> FALSE]

\* return / throw: the call is over, its locals are gone.
CallEnds(c, result) ==
    [IdleCall EXCEPT !.op = c.op, !.pc = "done", !.result = result,
                     !.afterClear = c.afterClear]

\* getCachedModels after both reads (lines 69-84): no entry, an expired entry
\* (the call goes on to delete), or the cached catalog.
AfterReads(c, t) ==
    IF ~Truthy(c.storedModels) \/ ~Truthy(c.storedTimestamp)
    THEN CallEnds(c, Returned(Null))
    ELSE IF ~parseInt(c.storedTimestamp.v).nan
            /\ t - parseInt(c.storedTimestamp.v).int > CACHE_TTL
    THEN [c EXCEPT !.pc = "delModels"]
    ELSE IF JSONparse(c.storedModels).threw
    THEN CallEnds(c, Returned(Null))                          \* catch
    ELSE CallEnds(c, Returned(Obj([models    |-> JSONparse(c.storedModels).value,
                                   timestamp |-> parseInt(c.storedTimestamp.v)])))

\* A call starts and runs up to its first awaited operation.
CallStarts(p) ==
    /\ call[p].pc = "idle"
    /\ \/ call' = [call EXCEPT ![p] = [IdleCall EXCEPT !.op = "getCachedModels",
                                                       !.pc = "getModels",
                                                       !.afterClear = cleared]]
       \/ call' = [call EXCEPT ![p] = [IdleCall EXCEPT !.op = "clearCache",
                                                       !.pc = "delModels"]]
       \/ \E models \in ClientCatalogs :
            call' = [call EXCEPT ![p] = [IdleCall EXCEPT !.op = "cacheModels",
                                                         !.pc = "setModels",
                                                         !.models = models]]
    /\ UNCHANGED <<idb, clientNow, cleared>>

\* getCachedModels: one awaited operation resolves (ok) or rejects.
GetCachedModelsStep(p) ==
    /\ call[p].op = "getCachedModels"
    /\ call[p].pc \in {"getModels", "getTimestamp", "delModels", "delTimestamp"}
    /\ \E ok \in BOOLEAN : \E c \in {call[p]} :
         IF ~ok
         THEN /\ call' = [call EXCEPT ![p] = CallEnds(c, Returned(Null))]   \* catch
              /\ UNCHANGED idb
         ELSE CASE c.pc = "getModels" ->
                     /\ call' = [call EXCEPT ![p] =
                                  [c EXCEPT !.pc = "getTimestamp",
                                            !.storedModels = IdbGet(idb, CACHE_KEY)]]
                     /\ UNCHANGED idb
                [] c.pc = "getTimestamp" ->
                     /\ call' = [call EXCEPT ![p] =
                                  AfterReads([c EXCEPT !.storedTimestamp =
                                                 IdbGet(idb, CACHE_TIMESTAMP_KEY)],
                                             clientNow)]
                     /\ UNCHANGED idb
                [] c.pc = "delModels" ->
                     /\ idb' = IdbDel(idb, CACHE_KEY)
                     /\ call' = [call EXCEPT ![p] = [c EXCEPT !.pc = "delTimestamp"]]
                [] c.pc = "delTimestamp" ->
                     /\ idb' = IdbDel(idb, CACHE_TIMESTAMP_KEY)
                     /\ call' = [call EXCEPT ![p] = CallEnds(c, Returned(Null))]
    /\ UNCHANGED <<clientNow, cleared>>

\* clearCache: one del resolves, or rejects and clearCache rejects with it.
ClearCacheStep(p) ==
    /\ call[p].op = "clearCache"
    /\ call[p].pc \in {"delModels", "delTimestamp"}
    /\ \E ok \in BOOLEAN : \E c \in {call[p]} :
         IF ~ok
         THEN /\ call' = [call EXCEPT ![p] = CallEnds(c, Threw)]
              /\ UNCHANGED <<idb, cleared>>
         ELSE IF c.pc = "delModels"
         THEN /\ idb' = IdbDel(idb, CACHE_KEY)
              /\ call' = [call EXCEPT ![p] = [c EXCEPT !.pc = "delTimestamp"]]
              /\ UNCHANGED cleared
         ELSE /\ idb' = IdbDel(idb, CACHE_TIMESTAMP_KEY)
              /\ call' = [call EXCEPT ![p] = CallEnds(c, Returned(Undefined))]
              /\ cleared' = TRUE
    /\ UNCHANGED clientNow

\* What the other calls in flight know once an entry has been stored.
Stored(calls, p, mine) ==
    [x \in Tasks |-> IF x = p THEN mine ELSE [calls[x] EXCEPT !.afterClear = FALSE]]

\* cacheModels: one set resolves, or rejects into the catch block.
CacheModelsStep(p) ==
    /\ call[p].op = "cacheModels"
    /\ call[p].pc \in {"setModels", "setTimestamp"}
    /\ \E ok \in BOOLEAN : \E c \in {call[p]} :
         IF ~ok
         THEN /\ call' = [call EXCEPT ![p] = CallEnds(c, Returned(Undefined))]
              /\ UNCHANGED <<idb, cleared>>
         ELSE IF c.pc = "setModels"
         THEN /\ idb' = IdbSet(idb, CACHE_KEY, JSONstringify(c.models))
              /\ call' = Stored(call, p, [c EXCEPT !.pc = "setTimestamp"])
              /\ cleared' = FALSE
         ELSE /\ idb' = IdbSet(idb, CACHE_TIMESTAMP_KEY, Str(toString(clientNow)))
              /\ call' = Stored(call, p, CallEnds(c, Returned(Undefined)))
              /\ cleared' = FALSE
    /\ UNCHANGED clientNow

\* The caller took the call's result.
CallReturns(p) ==
    /\ call[p].pc = "done"
    /\ call' = [call EXCEPT ![p] = IdleCall]
    /\ UNCHANGED <<idb, clientNow, cleared>>

ClientTick ==
    /\ clientNow < MaxClientTicks * ClientClockStep
    /\ clientNow' = clientNow + ClientClockStep
    /\ UNCHANGED <<idb, call, cleared>>

\* What the store may hold when the page loads: nothing, a catalog cached now
\* or 72 hours ago, a lone entry, or strings that do not parse.
StoredModelsAtLoad ==
    { Undefined, Str(sCorrupt) } \cup { JSONstringify(c) : c \in ClientCatalogs }

StoredTimestampAtLoad ==
    { Undefined, Str(sCorrupt), Str(toString(0)), Str(toString(2 * ClientClockStep)) }

ClientInit ==
    /\ idb \in { [k \in {CACHE_KEY, CACHE_TIMESTAMP_KEY} |->
                    IF k = CACHE_KEY THEN m ELSE t] :
                 m \in StoredModelsAtLoad, t \in StoredTimestampAtLoad }
    /\ clientNow = 2 * ClientClockStep
    /\ call = [p \in Tasks |-> IdleCall]
    /\ cleared = FALSE

\* The browser's variables while the server or the filter runs.
ClientIdle ==
    /\ idb = [k \in {CACHE_KEY, CACHE_TIMESTAMP_KEY} |-> Undefined]
    /\ clientNow = 0
    /\ call = [p \in Tasks |-> IdleCall]
    /\ cleared = FALSE

(***************************************************************************)
(* parseModalityString as a pure function of any string made of modality   *)
(* names and separators.                                                   *)
(***************************************************************************)
ModalityTokens == { sText, sImage, sPlus, sArrow }

\* The strings made of at most k tokens.
RECURSIVE TokenStrings(_)
TokenStrings(k) ==
    IF k = 0 THEN { <<>> }
    ELSE TokenStrings(k - 1)
         \cup { p \o t : p \in TokenStrings(k - 1), t \in ModalityTokens }

NotParsed == [inputs |-> <<>>, outputs |-> <<>>]

ParseInit ==
    /\ pmInput \in TokenStrings(MaxTokens)
    /\ pmResult = NotParsed

ParseApply ==
    /\ pmResult = NotParsed
    /\ pmResult' = parseModalityString(pmInput)
    /\ UNCHANGED pmInput

ParseNewInput ==
    /\ pmResult # NotParsed
    /\ pmInput' \in TokenStrings(MaxTokens)
    /\ pmResult' = NotParsed

\* The parser's variables while another part runs.
ParseIdle ==
    /\ pmInput = <<>>
    /\ pmResult = NotParsed

(***************************************************************************)
(* transformModel as a pure function: a raw record is drawn, then it is     *)
(* transformed.                                                             *)
(***************************************************************************)
\* What a raw record may hold as a modality list and as its endpoint.
RawModalityLists ==
    { Undefined, Null, Arr(<<>>), Arr(<<sText>>), Arr(<<sImage>>),
      Arr(<<sText, sImage>>) }

RawEndpoints ==
    { Undefined, Obj([pricing |-> Undefined]),
      Obj([pricing |-> Obj([prompt |-> Undefined, completion |-> Null,
                            request |-> Undefined, image |-> Undefined])]),
      Obj([pricing |-> Obj([prompt |-> Str(<<>>), completion |-> Str(sZero),
                            request |-> Str(sZero), image |-> Undefined])]),
      Pricing(<<"0",".","0","0","0","0","0","5">>) }

RawRecords ==
    { [RawPool[1] EXCEPT !.input_modalities = i, !.output_modalities = o,
                         !.endpoint = e] :
        i \in RawModalityLists, o \in RawModalityLists, e \in RawEndpoints }

NotTransformed == [id |-> <<>>]

TransformInit ==
    /\ tmRaw \in RawRecords
    /\ tmResult = NotTransformed

TransformApply ==
    /\ tmResult = NotTransformed
    /\ tmResult' = transformModel(tmRaw)
    /\ UNCHANGED tmRaw

TransformNewInput ==
    /\ tmResult # NotTransformed
    /\ tmRaw' \in RawRecords
    /\ tmResult' = NotTransformed

\* The transform's variables while another part runs.
TransformIdle ==
    /\ tmRaw = RawPool[1]
    /\ tmResult = NotTransformed

(***************************************************************************)
(* The rule-based extractConstraints of the heuristic server: a use-case    *)
(* text is drawn, then the constraints are extracted.                       *)
(***************************************************************************)
imageInputKeywords ==
    <<<<"i","m","a","g","e">>, <<"p","h","o","t","o">>, <<"p","i","c","t","u","r","e">>, <<"v","i","s","i","o","n">>, <<"o","c","r">>, <<"s","c","r","e","e","n","s","h","o","t">>, <<"d","i","a","g","r","a","m">>, <<"c","h","a","r","t">>, <<"v","i","s","u","a","l">>, <<"s","e","e">>, <<"l","o","o","k"," ","a","t">>, <<"d","e","s","c","r","i","b","e"," ","t","h","i","s">>>>

audioInputKeywords ==
    <<<<"a","u","d","i","o">>, <<"t","r","a","n","s","c","r","i","b","e">>, <<"s","p","e","e","c","h">>, <<"v","o","i","c","e">>, <<"l","i","s","t","e","n">>, <<"r","e","c","o","r","d","i","n","g">>, <<"p","o","d","c","a","s","t">>, <<"m","e","e","t","i","n","g">>>>

videoInputKeywords ==
    <<<<"v","i","d","e","o">>, <<"y","o","u","t","u","b","e">>, <<"w","a","t","c","h">>, <<"m","o","v","i","e">>, <<"c","l","i","p">>>>

fileInputKeywords ==
    <<<<"p","d","f">>, <<"c","s","v">>, <<"e","x","c","e","l">>, <<"d","o","c","u","m","e","n","t">>, <<"f","i","l","e">>, <<"u","p","l","o","a","d">>, <<"c","o","d","e","b","a","s","e">>, <<"r","e","p","o","s","i","t","o","r","y">>>>

imageOutputKeywords ==
    <<<<"g","e","n","e","r","a","t","e"," ","i","m","a","g","e">>, <<"c","r","e","a","t","e"," ","i","m","a","g","e">>, <<"d","r","a","w">>, <<"i","l","l","u","s","t","r","a","t","i","o","n">>, <<"c","r","e","a","t","e"," ","l","o","g","o">>, <<"m","a","k","e"," ","a"," ","p","i","c","t","u","r","e">>>>

embeddingKeywords ==
    <<<<"e","m","b","e","d","d","i","n","g">>, <<"v","e","c","t","o","r">>, <<"r","a","g">>, <<"s","e","m","a","n","t","i","c"," ","s","e","a","r","c","h">>, <<"s","i","m","i","l","a","r","i","t","y">>>>

longContextKeywords ==
    <<<<"b","o","o","k">>, <<"n","o","v","e","l">>, <<"e","n","t","i","r","e"," ","c","o","d","e","b","a","s","e">>, <<"f","u","l","l"," ","r","e","p","o","s","i","t","o","r","y">>, <<"l","o","n","g"," ","d","o","c","u","m","e","n","t">>, <<"l","e","g","a","l"," ","d","o","c","u","m","e","n","t">>, <<"t","h","e","s","i","s">>>>

mediumContextKeywords ==
    <<<<"a","r","t","i","c","l","e">>, <<"r","e","p","o","r","t">>, <<"e","s","s","a","y">>, <<"p","a","p","e","r">>, <<"c","h","a","p","t","e","r">>>>

cheapKeywords ==
    <<<<"c","h","e","a","p">>, <<"f","r","e","e">>, <<"b","u","d","g","e","t">>, <<"l","o","w"," ","c","o","s","t">>, <<"a","f","f","o","r","d","a","b","l","e">>, <<"i","n","e","x","p","e","n","s","i","v","e">>>>

\* keywords.some(k => text.includes(k))
SomeIncluded(text, keywords) ==
    \E i \in 1..Len(keywords) : includes(text, keywords[i])

\* (the context tiers tested in the other order)
MinContextMediumFirst(text) ==
    IF SomeIncluded(text, mediumContextKeywords) THEN 32000
    ELSE IF SomeIncluded(text, longContextKeywords) THEN 128000
    ELSE 0

\* constraints.min_context after the context tests
MinContext(text) ==
    IF SomeIncluded(text, longContextKeywords) THEN 128000
    ELSE IF SomeIncluded(text, mediumContextKeywords) THEN 32000
    ELSE 0

\* The pushes of one list: the modality of each keyword list that matched.
Pushed(text, tests) ==
    LET Matching(k) == IF SomeIncluded(text, tests[k][1]) THEN <<tests[k][2]>> ELSE <<>>
        RECURSIVE From(_)
        From(k) == IF k > Len(tests) THEN <<>> ELSE Matching(k) \o From(k + 1)
    IN  From(1)

extractConstraints(useCase) ==
    LET text == toLowerCase(useCase)
    IN  [required_modalities |->
             Pushed(text, << <<imageInputKeywords, sImage>>,
                             <<audioInputKeywords, <<"a","u","d","i","o">> >>,
                             <<videoInputKeywords, <<"v","i","d","e","o">> >>,
                             <<fileInputKeywords, <<"f","i","l","e">> >> >>),
         output_modalities |->
             Pushed(text, << <<imageOutputKeywords, sImage>>,
                             <<embeddingKeywords, sEmbeddings>> >>),
         min_context |-> MinContext(text),
         max_price   |-> IF SomeIncluded(text, cheapKeywords) THEN Num(1) ELSE Undefined]

\* Words a use case is written with, and the texts of at most k words.
UseCaseWords ==
    { <<"B","o","o","k">>, <<"t","h","e","s","i","s">>, <<"a","r","t","i","c","l","e">>, <<"R","E","P","O","R","T">>, <<"C","h","e","a","p">>, <<"l","o","w">>, <<"c","o","s","t">>, <<"c","h","a","t">> }

RECURSIVE UseCaseTexts(_)
UseCaseTexts(k) ==
    IF k = 0 THEN { <<>> }
    ELSE UseCaseTexts(k - 1)
         \cup { IF p = <<>> THEN w ELSE p \o sSpace \o w :
                  p \in UseCaseTexts(k - 1), w \in UseCaseWords }

NotExtracted == [min_context |-> -1]

HeuristicInit ==
    /\ hcUseCase \in UseCaseTexts(MaxWords)
    /\ hcResult = NotExtracted

HeuristicApply ==
    /\ hcResult = NotExtracted
    /\ hcResult' = extractConstraints(hcUseCase)
    /\ UNCHANGED hcUseCase

HeuristicNewInput ==
    /\ hcResult # NotExtracted
    /\ hcUseCase' \in UseCaseTexts(MaxWords)
    /\ hcResult' = NotExtracted

\* The extractor's variables while another part runs.
HeuristicIdle ==
    /\ hcUseCase = <<>>
    /\ hcResult = NotExtracted

(***************************************************************************)
(* The browser application: the Settings inputs, handleGetRecommendations   *)
(* with the progress timers of getModelRecommendations, loadModels, and the *)
(* Clear Cache and Sync Now handlers.  A handler runs from one await to the *)
(* next in one step.                                                        *)
(***************************************************************************)
\* The number NaN.
NotANumber == [t |-> "number", v |-> 0, nan |-> TRUE]

\* handleChange: parseInt(e.target.value), raised to 1 and lowered to 10 by
\* two comparisons (both false on NaN).
ClampedCount(s) ==
    IF parseInt(s).nan THEN NotANumber
    ELSE IF parseInt(s).int < 1 THEN Num(1)
    ELSE IF parseInt(s).int > 10 THEN Num(10)
    ELSE Num(parseInt(s).int)

\* What e.target.value may be: the range input gives "1".."10", the number
\* input what was typed, "" when the field is empty or not a number.
SettingsInputs ==
    { <<>>, <<"0">>, <<"1">>, <<"1","0">>, <<"1","1">>, <<"3",".","7">> }

HandleChange ==
    /\ \E s \in SettingsInputs : numRecommendations' = ClampedCount(s)
    /\ UNCHANGED <<isLoading, loadingStage, uiError, haveModels, uiRecommend,
                   uiTimers, uiMount, uiRefresh, statusMessage, storeHasCatalog>>

\* JSON.stringify of the count in the request body: NaN is written as null.
BodyCount(n) == IF n = NotANumber THEN Null ELSE n

\* String.prototype.trim for blanks.
RECURSIVE trimStart(_)
trimStart(s) == IF s # <<>> /\ Head(s) = " " THEN trimStart(Tail(s)) ELSE s

RECURSIVE trimEnd(_)
trimEnd(s) == IF s # <<>> /\ s[Len(s)] = " " THEN trimEnd(SubSeq(s, 1, Len(s) - 1)) ELSE s

trim(s) == trimEnd(trimStart(s))

UiRequests == 1..MaxUiRequests

NoUiRequest == [pc |-> "none", count |-> Undefined]

\* handleGetRecommendations up to the await of fetch: the guard, the state
\* resets, onProgress('analyzing'), the two setTimeout calls, the request.
\* The form is submitted while it is enabled (isLoading false).
HandleGetRecommendations ==
    /\ ~isLoading
    /\ \E useCase \in {<<>>, sSpace, sChat} :
         IF trim(useCase) = <<>> \/ ~haveModels
         THEN /\ uiError' = "enter-use-case"
              /\ UNCHANGED <<isLoading, loadingStage, uiRecommend, uiTimers>>
         ELSE \E id \in UiRequests :
              /\ uiRecommend[id].pc = "none"
              /\ \A o \in UiRequests : o < id => uiRecommend[o].pc # "none"
              /\ uiError' = "null"
              /\ isLoading' = TRUE
              /\ loadingStage' = "analyzing"
              /\ uiTimers' = uiTimers \cup {[id |-> id, stage |-> "filtering"],
                                           [id |-> id, stage |-> "ranking"]}
              /\ uiRecommend' = [uiRecommend EXCEPT ![id] =
                                   [pc |-> "fetching",
                                    count |-> BodyCount(numRecommendations)]]
    /\ UNCHANGED <<numRecommendations, haveModels, uiMount, uiRefresh,
                   statusMessage, storeHasCatalog>>

\* The request settles: the response is read and parsed, or the call throws;
\* then the finally block.
RecommendSettles(id) ==
    /\ uiRecommend[id].pc = "fetching"
    /\ \E ok \in BOOLEAN :
         uiError' = IF ok THEN uiError ELSE "recommend-failed"
    /\ isLoading' = FALSE
    /\ loadingStage' = "null"
    /\ uiRecommend' = [uiRecommend EXCEPT ![id] = [pc |-> "done", count |-> Undefined]]
    /\ UNCHANGED <<numRecommendations, haveModels, uiTimers, uiMount, uiRefresh,
                   statusMessage, storeHasCatalog>>

\* A setTimeout callback runs: onProgress(stage).  The callbacks run in the
\* order of their times: those of an earlier request first, 'filtering' (100
\* ms) before 'ranking' (200 ms).
TimerFires(t) ==
    /\ t \in uiTimers
    /\ \A o \in uiTimers : o.stage = t.stage => o.id >= t.id
    /\ t.stage = "ranking" => [id |-> t.id, stage |-> "filtering"] \notin uiTimers
    /\ loadingStage' = t.stage
    /\ uiTimers' = uiTimers \ {t}
    /\ UNCHANGED <<numRecommendations, isLoading, uiError, haveModels, uiRecommend,
                   uiMount, uiRefresh, statusMessage, storeHasCatalog>>

\* loadModels() of the mount effect, one await at a time: getCachedModels,
\* fetchModels, cacheModels.
MountStep ==
    /\ uiMount \in {"reading", "fetching", "caching"}
    /\ CASE uiMount = "reading" ->
              IF storeHasCatalog
              THEN /\ haveModels' = TRUE
                   /\ isLoading' = FALSE
                   /\ uiMount' = "done"
                   /\ UNCHANGED <<loadingStage, uiError, storeHasCatalog>>
              ELSE /\ isLoading' = TRUE
                   /\ loadingStage' = "null"
                   /\ uiMount' = "fetching"
                   /\ UNCHANGED <<haveModels, uiError, storeHasCatalog>>
         [] uiMount = "fetching" ->
              \E ok \in BOOLEAN :
                IF ok
                THEN /\ haveModels' = TRUE
                     /\ uiMount' = "caching"
                     /\ UNCHANGED <<isLoading, loadingStage, uiError, storeHasCatalog>>
                ELSE /\ uiError' = "fetch-failed"
                     /\ isLoading' = FALSE
                     /\ uiMount' = "done"
                     /\ UNCHANGED <<haveModels, loadingStage, storeHasCatalog>>
         [] uiMount = "caching" ->
              /\ \E ok \in BOOLEAN : storeHasCatalog' = (ok \/ storeHasCatalog)
              /\ isLoading' = FALSE
              /\ uiMount' = "done"
              /\ UNCHANGED <<haveModels, loadingStage, uiError>>
    /\ UNCHANGED <<numRecommendations, uiRecommend, uiTimers, uiRefresh, statusMessage>>

IdleRefresh == [op |-> "none", pc |-> "idle", fetched |-> "none", cached |-> FALSE]

\* handleClearCache up to the await of clearCache.  The buttons are disabled
\* while a handler of the Settings page runs.
HandleClearCache ==
    /\ uiRefresh.pc = "idle"
    /\ statusMessage' = "null"
    /\ uiRefresh' = [IdleRefresh EXCEPT !.op = "clear", !.pc = "clearing"]
    /\ UNCHANGED <<numRecommendations, isLoading, loadingStage, uiError, haveModels,
                   uiRecommend, uiTimers, uiMount, storeHasCatalog>>

\* loadModels(true) up to the await of fetchModels.
LoadModelsForced ==
    /\ uiError' = "null"
    /\ isLoading' = TRUE
    /\ loadingStage' = "null"

\* clearCache settles: the handler goes on to onRefreshData(), or to its catch
\* block.
ClearCacheSettles ==
    /\ uiRefresh.pc = "clearing"
    /\ \E ok \in BOOLEAN :
         IF ok
         THEN /\ storeHasCatalog' = FALSE
              /\ LoadModelsForced
              /\ uiRefresh' = [uiRefresh EXCEPT !.pc = "fetching"]
              /\ UNCHANGED statusMessage
         ELSE /\ storeHasCatalog' \in {storeHasCatalog, FALSE}
              /\ statusMessage' = "failed"
              /\ uiRefresh' = [uiRefresh EXCEPT !.pc = "idle"]
              /\ UNCHANGED <<uiError, isLoading, loadingStage>>
    /\ UNCHANGED <<numRecommendations, haveModels, uiRecommend, uiTimers, uiMount>>

\* handleSync up to the await of fetchModels in loadModels(true).
HandleSync ==
    /\ uiRefresh.pc = "idle"
    /\ statusMessage' = "null"
    /\ LoadModelsForced
    /\ uiRefresh' = [IdleRefresh EXCEPT !.op = "sync", !.pc = "fetching"]
    /\ UNCHANGED <<numRecommendations, haveModels, uiRecommend, uiTimers, uiMount,
                   storeHasCatalog>>

\* The message the handler sets after onRefreshData() resolved.
SuccessMessage(op) == IF op = "clear" THEN "cleared-and-refreshed" ELSE "synced"

\* fetchModels settles in loadModels(true): the catalog is set and cacheModels
\* awaited, or the catch block sets the error, the finally block runs,
\* loadModels returns and the Settings handler goes on after its await.
RefreshFetchSettles ==
    /\ uiRefresh.pc = "fetching"
    /\ \E ok \in BOOLEAN :
         IF ok
         THEN /\ haveModels' = TRUE
              /\ uiRefresh' = [uiRefresh EXCEPT !.pc = "caching", !.fetched = "ok"]
              /\ UNCHANGED <<uiError, isLoading, statusMessage>>
         ELSE /\ uiError' = "refresh-failed"
              /\ isLoading' = FALSE
              /\ statusMessage' = SuccessMessage(uiRefresh.op)
              /\ uiRefresh' = [uiRefresh EXCEPT !.pc = "idle", !.fetched = "failed"]
              /\ UNCHANGED haveModels
    /\ UNCHANGED <<numRecommendations, loadingStage, uiRecommend, uiTimers, uiMount,
                   storeHasCatalog>>

\* cacheModels settles (it catches its own errors): setLastUpdated, the
\* finally block, and the Settings handler goes on after its await.
RefreshCacheSettles ==
    /\ uiRefresh.pc = "caching"
    /\ \E ok \in BOOLEAN :
         /\ storeHasCatalog' = (ok \/ storeHasCatalog)
         /\ uiRefresh' = [uiRefresh EXCEPT !.pc = "idle", !.cached = ok]
    /\ isLoading' = FALSE
    /\ statusMessage' = SuccessMessage(uiRefresh.op)
    /\ UNCHANGED <<numRecommendations, loadingStage, uiError, haveModels,
                   uiRecommend, uiTimers, uiMount>>

\* setTimeout(() => setStatusMessage(null), 3000)
StatusTimeout ==
    /\ statusMessage # "null"
    /\ uiRefresh.pc = "idle"
    /\ statusMessage' = "null"
    /\ UNCHANGED <<numRecommendations, isLoading, loadingStage, uiError, haveModels,
                   uiRecommend, uiTimers, uiMount, uiRefresh, storeHasCatalog>>

\* The page after its first render: the mount effect has called loadModels().
AppInit ==
    /\ numRecommendations = Num(3)
    /\ isLoading = TRUE
    /\ loadingStage = "null"
    /\ uiError = "null"
    /\ haveModels = FALSE
    /\ uiRecommend = [id \in UiRequests |-> NoUiRequest]
    /\ uiTimers = {}
    /\ uiMount = "reading"
    /\ uiRefresh = IdleRefresh
    /\ statusMessage = "null"
    /\ storeHasCatalog \in BOOLEAN

\* The page's variables while another part runs.
AppIdle ==
    /\ numRecommendations = Num(3)
    /\ isLoading = TRUE
    /\ loadingStage = "null"
    /\ uiError = "null"
    /\ haveModels = FALSE
    /\ uiRecommend = [id \in UiRequests |-> NoUiRequest]
    /\ uiTimers = {}
    /\ uiMount = "reading"
    /\ uiRefresh = IdleRefresh
    /\ statusMessage = "null"
    /\ storeHasCatalog = FALSE

\* The filter specification's variables while the server runs.
FilterIdle ==
    /\ fModels = <<>>
    /\ fConstraints = DEFAULT_CONSTRAINTS
    /\ fMinCandidates = 0
    /\ fResult = NoResult

Init == ServerInit /\ FilterIdle /\ ClientIdle /\ ParseIdle /\ TransformIdle /\ HeuristicIdle /\ AppIdle

Next ==
    \/ Tick /\ UNCHANGED <<filterVars, clientVars, parseVars, transformVars, heuristicVars, appVars>>
    \/ \E r \in Requests : RecommendReceive(r) /\ UNCHANGED <<filterVars, clientVars, parseVars, transformVars, heuristicVars, appVars>>
    \/ \E r \in Requests : ModelsReceive(r) /\ UNCHANGED <<filterVars, clientVars, parseVars, transformVars, heuristicVars, appVars>>
    \/ \E r \in Requests : FetchResponds(r) /\ UNCHANGED <<filterVars, clientVars, parseVars, transformVars, heuristicVars, appVars>>
    \/ \E r \in Requests : ExtractionResponds(r) /\ UNCHANGED <<filterVars, clientVars, parseVars, transformVars, heuristicVars, appVars>>
    \/ \E r \in Requests : RankingResponds(r) /\ UNCHANGED <<filterVars, clientVars, parseVars, transformVars, heuristicVars, appVars>>
    \/ \E r \in Requests : Close(r) /\ UNCHANGED <<filterVars, clientVars, parseVars, transformVars, heuristicVars, appVars>>

Spec == Init /\ [][Next]_vars

\* The filter alone: the server stays as constructed.
InitFilter == FilterInit /\ ServerInit /\ ClientIdle /\ ParseIdle /\ TransformIdle /\ HeuristicIdle /\ AppIdle

NextFilter ==
    \/ FilterApply /\ UNCHANGED <<serverVars, clientVars, parseVars, transformVars, heuristicVars, appVars>>
    \/ FilterNewInput /\ UNCHANGED <<serverVars, clientVars, parseVars, transformVars, heuristicVars, appVars>>

SpecFilter == InitFilter /\ [][NextFilter]_vars

\* The browser's cache alone.
InitClient == ClientInit /\ ServerInit /\ FilterIdle /\ ParseIdle /\ TransformIdle /\ HeuristicIdle /\ AppIdle

NextClient ==
    \/ ClientTick /\ UNCHANGED <<serverVars, filterVars, parseVars, transformVars, heuristicVars, appVars>>
    \/ \E p \in Tasks : CallStarts(p) /\ UNCHANGED <<serverVars, filterVars, parseVars, transformVars, heuristicVars, appVars>>
    \/ \E p \in Tasks : GetCachedModelsStep(p) /\ UNCHANGED <<serverVars, filterVars, parseVars, transformVars, heuristicVars, appVars>>
    \/ \E p \in Tasks : ClearCacheStep(p) /\ UNCHANGED <<serverVars, filterVars, parseVars, transformVars, heuristicVars, appVars>>
    \/ \E p \in Tasks : CacheModelsStep(p) /\ UNCHANGED <<serverVars, filterVars, parseVars, transformVars, heuristicVars, appVars>>
    \/ \E p \in Tasks : CallReturns(p) /\ UNCHANGED <<serverVars, filterVars, parseVars, transformVars, heuristicVars, appVars>>

SpecClient == InitClient /\ [][NextClient]_vars

\* parseModalityString alone.
InitParse == ParseInit /\ ServerInit /\ FilterIdle /\ ClientIdle /\ TransformIdle /\ HeuristicIdle /\ AppIdle

NextParse ==
    \/ ParseApply /\ UNCHANGED <<serverVars, filterVars, clientVars, transformVars, heuristicVars, appVars>>
    \/ ParseNewInput /\ UNCHANGED <<serverVars, filterVars, clientVars, transformVars, heuristicVars, appVars>>

SpecParse == InitParse /\ [][NextParse]_vars

\* transformModel alone.
InitTransform == TransformInit /\ ServerInit /\ FilterIdle /\ ClientIdle /\ ParseIdle /\ HeuristicIdle /\ AppIdle

NextTransform ==
    \/ TransformApply /\ UNCHANGED <<serverVars, filterVars, clientVars, parseVars, heuristicVars, appVars>>
    \/ TransformNewInput /\ UNCHANGED <<serverVars, filterVars, clientVars, parseVars, heuristicVars, appVars>>

SpecTransform == InitTransform /\ [][NextTransform]_vars

\* The rule-based extractor alone.
InitHeuristic ==
    HeuristicInit /\ ServerInit /\ FilterIdle /\ ClientIdle /\ ParseIdle /\ TransformIdle
    /\ AppIdle

NextHeuristic ==
    \/ HeuristicApply /\ UNCHANGED <<serverVars, filterVars, clientVars, parseVars, transformVars, appVars>>
    \/ HeuristicNewInput /\ UNCHANGED <<serverVars, filterVars, clientVars, parseVars, transformVars, appVars>>

SpecHeuristic == InitHeuristic /\ [][NextHeuristic]_vars

\* The browser application alone.
InitApp ==
    AppInit /\ ServerInit /\ FilterIdle /\ ClientIdle /\ ParseIdle /\ TransformIdle
    /\ HeuristicIdle

NextApp ==
    \/ HandleChange /\ UNCHANGED <<serverVars, filterVars, clientVars, parseVars, transformVars, heuristicVars>>
    \/ HandleGetRecommendations /\ UNCHANGED <<serverVars, filterVars, clientVars, parseVars, transformVars, heuristicVars>>
    \/ \E id \in UiRequests : RecommendSettles(id) /\ UNCHANGED <<serverVars, filterVars, clientVars, parseVars, transformVars, heuristicVars>>
    \/ \E t \in uiTimers : TimerFires(t) /\ UNCHANGED <<serverVars, filterVars, clientVars, parseVars, transformVars, heuristicVars>>
    \/ MountStep /\ UNCHANGED <<serverVars, filterVars, clientVars, parseVars, transformVars, heuristicVars>>
    \/ HandleClearCache /\ UNCHANGED <<serverVars, filterVars, clientVars, parseVars, transformVars, heuristicVars>>
    \/ ClearCacheSettles /\ UNCHANGED <<serverVars, filterVars, clientVars, parseVars, transformVars, heuristicVars>>
    \/ HandleSync /\ UNCHANGED <<serverVars, filterVars, clientVars, parseVars, transformVars, heuristicVars>>
    \/ RefreshFetchSettles /\ UNCHANGED <<serverVars, filterVars, clientVars, parseVars, transformVars, heuristicVars>>
    \/ RefreshCacheSettles /\ UNCHANGED <<serverVars, filterVars, clientVars, parseVars, transformVars, heuristicVars>>
    \/ StatusTimeout /\ UNCHANGED <<serverVars, filterVars, clientVars, parseVars, transformVars, heuristicVars>>

SpecApp == InitApp /\ [][NextApp]_vars

(***************************************************************************)
(* Properties of filterModelsWithFallback (under SpecFilter).              *)
(***************************************************************************)
\* C1: the relaxLevel filterModelsWithFallback returns is the smallest level in
\* 0..3 whose candidate count is >= minCandidates, and 3 when no level reaches
\* minCandidates; the candidates returned are that level's.
C1_RelaxLevelIsSmallest ==
    (fResult # NoResult /\ ~fResult.threw) =>
        LET count  == [l \in 0..3 |->
                         IF l = 3 THEN Len(FilterTextCapable(fModels))
                         ELSE Len(filterModels(fModels, fConstraints, l).value)]
            enough == {l \in 0..3 : count[l] >= fMinCandidates}
        IN  /\ fResult.value.relaxLevel =
                 IF enough = {} THEN 3
                 ELSE CHOOSE l \in enough : \A k \in enough : l <= k
            /\ Len(fResult.value.candidates) = count[fResult.value.relaxLevel]

\* C1's case: levels 0 and 1 fall short and level 2 gives exactly minCandidates.
C1_Witness ==
    /\ fResult # NoResult
    /\ ~fResult.threw
    /\ fResult.value.relaxLevel = 2
    /\ fMinCandidates > 0
    /\ Len(fResult.value.candidates) = fMinCandidates

(***************************************************************************)
(* Properties of the server (under Spec).                                  *)
(***************************************************************************)
\* C2: for a non-empty catalog, the candidates handed to the ranking call are
\* not empty.
C2_CandidatesNonEmpty ==
    \A r \in Requests :
        (req[r].pc = "ranking" /\ req[r].meta.totalModels > 0)
            => req[r].sent # <<>>

\* C3: a failed extraction call (it rejects, gives no text, or text that is not
\* JSON) makes extractConstraintsWithLLM return DEFAULT_CONSTRAINTS, and the
\* request goes on to filtering and the ranking call.
C3_ExtractionFailureGivesDefaults ==
    /\ \A out \in ExtractionOutcomes :
          out.kind # "json" =>
              extractConstraintsWithLLM(out) = Returned(DEFAULT_CONSTRAINTS)
    /\ \A r \in Requests :
          req[r].extraction = "failed" =>
              /\ req[r].pc \in {"ranking", "done"}
              /\ {"filter", "rank"} \subseteq req[r].work
              /\ req[r].pc = "ranking" => req[r].constraints = DEFAULT_CONSTRAINTS

\* C3's case: the extraction call failed and the ranking call is out.
C3_Witness ==
    \E r \in Requests :
        /\ req[r].extraction = "failed"
        /\ req[r].pc = "ranking"
        /\ req[r].sent # <<>>

\* C4: when the extraction call answers JSON that violates the response schema,
\* the constraints used are DEFAULT_CONSTRAINTS and the request reaches the
\* ranking call.
C4_SchemaViolationGivesDefaults ==
    \A r \in Requests :
        req[r].extraction = "violating" =>
            /\ req[r].pc \in {"ranking", "done"}
            /\ "rank" \in req[r].work
            /\ req[r].pc = "ranking" => req[r].constraints = DEFAULT_CONSTRAINTS

\* C5: a ranking call that fails, or whose output is not of the recommendations
\* shape, ends the request with HTTP 500 and no recommendations.
C5_RankingFailureIs500 ==
    \A r \in Requests :
        (req[r].pc = "done" /\ req[r].ranking \in {"failed", "unshaped"}) =>
            /\ req[r].status = 500
            /\ req[r].body.recommendations = Undefined

\* C6: a /recommend request without a useCase is answered 400 in the step that
\* receives it, having done no downstream work; only such requests get a 400.
C6_MissingUseCaseIs400 ==
    \A r \in Requests :
        /\ (req[r].route = "recommend" /\ ~Truthy(req[r].useCase)) =>
               /\ req[r].pc = "done"
               /\ req[r].status = 400
               /\ req[r].work = {}
        /\ req[r].status = 400 =>
               /\ req[r].route = "recommend"
               /\ ~Truthy(req[r].useCase)

\* C6's case: a request with an empty useCase has been answered while another
\* request's fetch is outstanding.
C6_Witness ==
    \E r, o \in Requests :
        /\ req[r].status = 400
        /\ req[r].useCase = Str(<<>>)
        /\ req[o].pc = "fetching"

\* C7: at most one upstream fetch is outstanding at any time.
C7_SingleFlight ==
    Cardinality({r \in Requests : req[r].pc = "fetching"}) <= 1

\* C8: two getModels calls that returned the cache of one TTL window (the same
\* cacheTimestamp) returned the same catalog, and at most one of them fetched.
C8_SameWindowSameCatalog ==
    \A r, o \in Requests :
        ( /\ r # o
          /\ req[r].route = "models" /\ req[r].pc = "done" /\ req[r].status = 200
          /\ req[o].route = "models" /\ req[o].pc = "done" /\ req[o].status = 200
          /\ req[r].ts = req[o].ts ) =>
            /\ req[r].models = req[o].models
            /\ ~("fetch" \in req[r].work /\ "fetch" \in req[o].work)

\* C9: when the upstream call fails, getModels throws (the request is answered
\* 500) and cachedModels and cacheTimestamp stay as they were; a getModels call
\* that follows a failed refresh and finds the cache not valid fetches again.
C9_FailedRefreshLeavesCache ==
    [][\A r \in Requests :
          /\ ( /\ req[r].pc = "fetching"
               /\ req'[r].pc # "fetching"
               /\ lastRefresh' = "failed" ) =>
                  /\ req'[r].pc = "done"
                  /\ req'[r].status = 500
                  /\ cachedModels' = cachedModels
                  /\ cacheTimestamp' = cacheTimestamp
          /\ ( /\ req[r].pc = "idle"
               /\ req'[r].pc # "idle"
               /\ req'[r].status # 400
               /\ lastRefresh = "failed"
               /\ ~CacheValid(now) ) =>
                  /\ req'[r].pc = "fetching"
                  /\ "fetch" \in req'[r].work]_vars

\* C9's case: after a failed refresh left the cache empty, a call is fetching
\* again.
C9_Witness ==
    \E r \in Requests :
        /\ req[r].pc = "fetching"
        /\ req[r].retry
        /\ lastRefresh = "failed"
        /\ cachedModels = Null
        /\ cacheTimestamp = Null

\* C10: cachedModels and cacheTimestamp change only in the step in which a
\* successful refresh stores a whole fetched catalog and its timestamp
\* together; no other step of a handler (filtering, sorting, truncating,
\* ranking, answering) changes either.
C10_CacheReplacedWholesale ==
    [][ /\ (cachedModels' # cachedModels \/ cacheTimestamp' # cacheTimestamp) =>
             \E r \in Requests :
                 /\ req[r].pc = "fetching"
                 /\ req'[r].pc # "fetching"
                 /\ lastRefresh' = "ok"
                 /\ cachedModels' \in {Arr(c) : c \in ServerCatalogs}
                 /\ cacheTimestamp' = Num(req[r].now)
        /\ (cachedModels' = Null) <=> (cacheTimestamp' = Null) ]_vars

\* C10's case: a /recommend request sorted and truncated more than 50
\* candidates taken from the cache, whose order is not the sorted one.
C10_Witness ==
    \E r \in Requests :
        /\ req[r].pc = "ranking"
        /\ req[r].meta.afterFiltering > MaxRankCandidates
        /\ req[r].meta.candidatesRanked = MaxRankCandidates
        /\ Truthy(cachedModels)
        /\ Len(cachedModels.v) = req[r].meta.totalModels
        /\ SortByProvider(cachedModels.v) # cachedModels.v

\* C11: a getCachedModels call that starts after a clearCache call completed,
\* and ends before any cacheModels write takes effect, returns null, whatever
\* the store held before the clearCache (a fresh catalog, an expired one, a
\* lone or unparsable entry, nothing) and whatever ran alongside.
C11_ClearedCacheReadsNull ==
    \A p \in Tasks :
        (/\ call[p].op = "getCachedModels"
         /\ call[p].pc = "done"
         /\ call[p].afterClear)
        => call[p].result = Returned(Null)

\* A read after a completed clearCache returned null although the store holds
\* a catalog entry again (written while the clearCache was between its dels).
C11_Witness ==
    \E p \in Tasks :
        /\ call[p].op = "getCachedModels"
        /\ call[p].pc = "done"
        /\ call[p].afterClear
        /\ call[p].result = Returned(Null)
        /\ cleared
        /\ Truthy(idb[CACHE_KEY])

\* C12: when the constraint set requires an input modality other than text, every
\* model the level-0 filter returns has each required input modality in the
\* input list parsed from its modality string.
C12_RequiredInputsCovered ==
    (/\ fResult # NoResult
     /\ ~fResult.threw
     /\ fResult.value.relaxLevel = 0
     /\ \E i \in 1..Len(fConstraints.v.input_modalities.v) :
            fConstraints.v.input_modalities.v[i] # sText)
    => \A k \in 1..Len(fResult.value.candidates) :
         \A i \in 1..Len(fConstraints.v.input_modalities.v) :
            arrayIncludes(
                parseModalityString(
                    fResult.value.candidates[k].architecture.modality).inputs,
                fConstraints.v.input_modalities.v[i])

\* Of a "text+image->text" model and a "text->text" model, a constraint set that
\* requires text and image input kept the first alone at level 0.
C12_Witness ==
    /\ fResult # NoResult
    /\ ~fResult.threw
    /\ fResult.value.relaxLevel = 0
    /\ fConstraints.v.input_modalities = Arr(<<sText, sImage>>)
    /\ Len(fModels) = 2
    /\ fModels[1].architecture.modality = sText \o sPlus \o sImage \o sArrow \o sText
    /\ fModels[2].architecture.modality = sTextToText
    /\ fResult.value.candidates = <<fModels[1]>>

\* The decimal value of a price string (digits, optionally a point and up to
\* nine decimals) times 1,000,000, in thousandths of a dollar.
ExactPerMillion(s) ==
    LET ni == DigitPrefixLen(s)
        nf == IF ni < Len(s) /\ s[ni + 1] = "."
              THEN DigitPrefixLen(SubSeq(s, ni + 2, Len(s))) ELSE 0
    IN  DigitsToInt(SubSeq(s, 1, ni)) * Pow10(9)
        + DigitsToInt(SubSeq(s, ni + 2, ni + 1 + nf)) * Pow10(9 - nf)

\* C13: when the price cap is the only constraint, the level-0 filter returns a
\* model exactly when its prompt price times 1,000,000 is at most the cap.
C13_PriceCapExact ==
    (/\ fResult # NoResult
     /\ ~fResult.threw
     /\ fResult.value.relaxLevel = 0
     /\ fConstraints.v.max_price_per_million.t = "number"
     /\ [fConstraints.v EXCEPT !.max_price_per_million = Null]
          = Constraints(<<>>, <<>>, 0, Null, <<>>, <<>>, <<>>, <<>>).v)
    => \A i \in 1..Len(fModels) :
         (\E k \in 1..Len(fResult.value.candidates) :
             fResult.value.candidates[k] = fModels[i])
         <=> ExactPerMillion(fModels[i].pricing.prompt)
               <= fConstraints.v.max_price_per_million.v

\* C14: a modality string that does not contain "->" parses to inputs ["text"]
\* and outputs ["text"].
C14_NoArrowParsesAsText ==
    (pmResult # NotParsed /\ ~includes(pmInput, sArrow))
    => pmResult = [inputs |-> <<sText>>, outputs |-> <<sText>>]

\* C15: with a constraint set that requires nothing (no modalities, min_context
\* 0, no price cap, no providers, no keywords) the level-0 filter returns the
\* whole catalog: whenever the catalog has the asked number of candidates the
\* answer is level 0, and a level-0 answer is the catalog, in order.
C15_NoRequirementKeepsAll ==
    (/\ fResult # NoResult
     /\ fConstraints = Constraints(<<>>, <<>>, 0, Null, <<>>, <<>>, <<>>, <<>>))
    => /\ ~fResult.threw
       /\ Len(fModels) >= fMinCandidates => fResult.value.relaxLevel = 0
       /\ fResult.value.relaxLevel = 0 => fResult.value.candidates = fModels

\* A catalog of four, a free model without a context length and a priced
\* model among them, came back whole at level 0.
C15_Witness ==
    /\ fResult # NoResult
    /\ fConstraints = Constraints(<<>>, <<>>, 0, Null, <<>>, <<>>, <<>>, <<>>)
    /\ Len(fModels) = 4
    /\ \E i \in 1..4 : fModels[i].context_length = 0 /\ fModels[i].pricing.prompt = sZero
    /\ \E i \in 1..4 : Greater(parseFloat(fModels[i].pricing.prompt), Zero)
    /\ fResult.value.relaxLevel = 0
    /\ fResult.value.candidates = fModels

\* C16: within one /recommend request the stages run in sequence, each at most
\* once.  The extraction call is issued once, before any filtering or ranking;
\* the filter runs only in the step in which the extraction call completed,
\* on the constraints that call gave; the ranking call is issued only out of
\* that step, after the filter; a request whose catalog fetch failed is
\* answered at once, with no extraction, filter or ranking call.
C16_StagesInSequence ==
    [][\A r \in Requests :
         LET q == req[r]
             n == req'[r]
         IN /\ (n.pc = "extracting" /\ q.pc # "extracting") =>
                   /\ q.pc \in {"idle", "fetching"}
                   /\ {"extract", "filter", "rank"} \cap q.work = {}
                   /\ {"filter", "rank"} \cap n.work = {}
                   /\ n.extraction = "none"
            /\ ("filter" \in n.work /\ "filter" \notin q.work) =>
                   /\ q.pc = "extracting"
                   /\ q.extraction = "none"
                   /\ n.extraction # "none"
                   /\ "extract" \in q.work
            /\ (n.pc = "ranking" /\ q.pc # "ranking") =>
                   /\ q.pc = "extracting"
                   /\ "rank" \notin q.work
                   /\ {"extract", "filter", "rank"} \subseteq n.work
                   /\ n.extraction # "none"
                   /\ ~IsNullish(n.constraints)
            /\ q.pc = "extracting" => n.pc \in {"extracting", "ranking", "done"}
            /\ q.pc = "ranking" => n.pc \in {"ranking", "done"}
            /\ q.pc = "done" => n.pc \in {"done", "idle"}
            /\ (q.pc = "fetching" /\ n.pc # "fetching" /\ lastRefresh' = "failed") =>
                   /\ n.pc = "done"
                   /\ n.status = 500
                   /\ {"extract", "filter", "rank"} \cap n.work = {}
    ]_vars

\* C16's case: one request went through the three stages and has its ranking
\* call out, and another was answered 500 because its catalog fetch failed.
C16_Witness ==
    \E r, o \in Requests :
        /\ req[r].pc = "ranking"
        /\ {"fetch", "extract", "filter", "rank"} \subseteq req[r].work
        /\ req[o].pc = "done"
        /\ req[o].route = "recommend"
        /\ req[o].status = 500
        /\ req[o].work = {"cache", "fetch"}

\* C17: the ranking call gets at most 50 candidates: their number is
\* min(afterFiltering, 50), and it is the candidatesRanked of the metadata,
\* in the request and in the response that carries the metadata.
C17_AtMostFiftyRanked ==
    \A r \in Requests :
        /\ req[r].pc = "ranking" =>
              /\ Len(req[r].sent) <= MaxRankCandidates
              /\ Len(req[r].sent) = IF req[r].meta.afterFiltering < MaxRankCandidates
                                    THEN req[r].meta.afterFiltering
                                    ELSE MaxRankCandidates
              /\ req[r].meta.candidatesRanked = Len(req[r].sent)
        /\ (req[r].pc = "done" /\ req[r].status = 200 /\ req[r].route = "recommend") =>
              /\ req[r].body.metadata.candidatesRanked <= MaxRankCandidates
              /\ req[r].body.metadata.candidatesRanked =
                     IF req[r].body.metadata.afterFiltering < MaxRankCandidates
                     THEN req[r].body.metadata.afterFiltering
                     ELSE MaxRankCandidates

\* C17's case: more than 50 models passed the filter, 50 were sent, and the
\* response reports them.
C17_Witness ==
    \E r \in Requests :
        /\ req[r].pc = "done"
        /\ req[r].status = 200
        /\ req[r].body.metadata.afterFiltering > MaxRankCandidates
        /\ req[r].body.metadata.candidatesRanked = MaxRankCandidates

\* C18: every model_id among the recommendations of a 200 response of
\* /api/recommend is the id of a candidate sent to that request's ranking call.
C18_RecommendedIdsWereSent ==
    \A r \in Requests :
        ( /\ req[r].pc = "done"
          /\ req[r].route = "recommend"
          /\ req[r].status = 200
          /\ IsA(req[r].body.recommendations, "array") ) =>
            \A i \in DOMAIN req[r].body.recommendations.v :
                \E j \in DOMAIN req[r].sent :
                    req[r].body.recommendations.v[i].model_id = req[r].sent[j]

\* C19: the level-2 filter still applies the exclusion checks and the non-text
\* modality coverage: no model it returns has an id starting with an excluded
\* provider prefix or an exclude keyword in its name, description or id, and
\* when a non-text input (output) modality is required, every model it returns
\* has each required input (output) modality in its parsed list.
C19_LevelTwoKeepsHardChecks ==
    (/\ fResult # NoResult
     /\ ~fResult.threw
     /\ fResult.value.relaxLevel = 2)
    => \A k \in 1..Len(fResult.value.candidates) :
         LET m == fResult.value.candidates[k]
             parsed == parseModalityString(m.architecture.modality)
             text == toLowerCase(m.name \o sSpace \o m.description \o sSpace \o m.id)
             inp == fConstraints.v.input_modalities.v
             out == fConstraints.v.output_modalities.v
         IN  /\ ~MatchesProvider(m, fConstraints.v.excluded_providers.v)
             /\ ~HasKeyword(text, fConstraints.v.exclude_keywords.v)
             /\ (\E i \in 1..Len(inp) : inp[i] # sText) =>
                    \A i \in 1..Len(inp) : arrayIncludes(parsed.inputs, inp[i])
             /\ (\E i \in 1..Len(out) : out[i] # sText) =>
                    \A i \in 1..Len(out) : arrayIncludes(parsed.outputs, out[i])

\* C20: at level 0 the modality coverage holds for every required modality, text
\* included, also when only text is required: every model the level-0 filter
\* returns has each required input modality in its parsed input list and each
\* required output modality in its parsed output list.
C20_LevelZeroCoversText ==
    (/\ fResult # NoResult
     /\ ~fResult.threw
     /\ fResult.value.relaxLevel = 0)
    => \A k \in 1..Len(fResult.value.candidates) :
         LET parsed == parseModalityString(
                           fResult.value.candidates[k].architecture.modality)
             inp == fConstraints.v.input_modalities.v
             out == fConstraints.v.output_modalities.v
         IN  /\ \A i \in 1..Len(inp) : arrayIncludes(parsed.inputs, inp[i])
             /\ \A i \in 1..Len(out) : arrayIncludes(parsed.outputs, out[i])

\* The constraint object c with its four soft fields replaced.
C21_WithSoft(c, ctx, price, pref, cap) ==
    Obj([c.v EXCEPT !.min_context = Num(ctx),
                    !.max_price_per_million = price,
                    !.preferred_providers = Arr(pref),
                    !.capability_keywords = Arr(cap)])

\* Values the four soft fields are replaced by.
C21_SoftValues ==
    { <<0, Null, <<>>, <<>>>>,
      <<32000, Null, <<>>, <<>>>>,
      <<0, Num(570), <<>>, <<>>>>,
      <<0, Null, <<sMistral>>, <<>>>>,
      <<0, Null, <<>>, <<sEmbedding>>>>,
      <<200000, Num(0), <<sAnthropic>>, <<sBase>>>> }

\* C21: the level-1 candidate set is the same whatever min_context,
\* max_price_per_million, preferred_providers and capability_keywords are; no
\* model in it has an id starting (case-insensitively) with an excluded provider
\* prefix or an exclude keyword in its name, description or id; and when a
\* non-text modality is required, every model in it has the required
\* modalities.  A result at relaxLevel 1 is that candidate set.
C21_LevelOneDropsSoftChecks ==
    fResult # NoResult =>
      LET one == filterModels(fModels, fConstraints, 1)
          inp == fConstraints.v.input_modalities.v
          out == fConstraints.v.output_modalities.v
      IN  /\ ~one.threw
          /\ \A s \in C21_SoftValues :
                filterModels(fModels,
                             C21_WithSoft(fConstraints, s[1], s[2], s[3], s[4]), 1) = one
          /\ \A i \in 1..Len(fModels) :
                LET m == fModels[i]
                    parsed == parseModalityString(m.architecture.modality)
                    text == toLowerCase(m.name \o sSpace \o m.description \o sSpace \o m.id)
                IN  ( \/ MatchesProvider(m, fConstraints.v.excluded_providers.v)
                      \/ HasKeyword(text, fConstraints.v.exclude_keywords.v)
                      \/ \E j \in 1..Len(inp) :
                            inp[j] # sText /\ ~arrayIncludes(parsed.inputs, inp[j])
                      \/ \E j \in 1..Len(out) :
                            out[j] # sText /\ ~arrayIncludes(parsed.outputs, out[j]) )
                    => \A k \in 1..Len(one.value) : one.value[k] # m
          /\ (~fResult.threw /\ fResult.value.relaxLevel = 1) =>
                fResult.value.candidates = one.value

\* C21's case: the filter stopped at level 1; level 0 had dropped a model that
\* level 1 keeps, and level 1 dropped a model of an excluded provider.
C21_Witness ==
    /\ fResult # NoResult
    /\ ~fResult.threw
    /\ fResult.value.relaxLevel = 1
    /\ fResult.value.candidates # filterModels(fModels, fConstraints, 0).value
    /\ \E i \in 1..Len(fModels) :
          /\ MatchesProvider(fModels[i], fConstraints.v.excluded_providers.v)
          /\ \A k \in 1..Len(fResult.value.candidates) :
                fResult.value.candidates[k] # fModels[i]

\* The position of the model with identifier id in the candidate list cands.
C22_Position(cands, id) == CHOOSE i \in 1..Len(cands) : cands[i].id = id

\* What filterModelsWithFallback returns on each catalog and constraint object
\* a request can hold, computed once.
C22_FilteredTable ==
    { [models |-> c, constraints |-> k,
       result |-> filterModelsWithFallback(c, k, DefaultMinCandidates)] :
        c \in ServerCatalogs, k \in ServerConstraintValues }

\* The candidates filterModelsWithFallback gives before the limiting block.
C22_Filtered(models, constraints) ==
    (CHOOSE e \in C22_FilteredTable :
        e.models = models /\ e.constraints = constraints).result.value.candidates

\* C22: when more than 50 candidates passed the filter, the 50 sent to the
\* ranking call are chosen by provider priority: no candidate left out has a
\* strictly better priority than one sent, candidates of equal priority are
\* sent in catalog order, and of two candidates of equal priority the one left
\* out comes later in the catalog.
C22_TruncationByPriority ==
    [][\A r \in Requests :
         ( /\ req[r].pc = "extracting"
           /\ req'[r].pc = "ranking"
           /\ req'[r].meta.afterFiltering > MaxRankCandidates ) =>
           \A cands \in {C22_Filtered(req[r].models, req'[r].constraints)} :
           \A kept \in {req'[r].sent} :
             /\ Len(cands) = req'[r].meta.afterFiltering
             /\ \A a \in 1..Len(kept) : \E i \in 1..Len(cands) : cands[i].id = kept[a]
             /\ \A pos \in {[a \in 1..Len(kept) |-> C22_Position(cands, kept[a])]} :
                \A pri \in {[i \in 1..Len(cands) |-> ProviderPriority(cands[i])]} :
                  /\ \A i \in 1..Len(cands) :
                        (\A a \in 1..Len(kept) : pos[a] # i) =>
                           \A a \in 1..Len(kept) :
                              /\ pri[i] >= pri[pos[a]]
                              /\ pri[i] = pri[pos[a]] => pos[a] < i
                  /\ \A a, b \in 1..Len(kept) :
                        (a < b /\ pri[pos[a]] = pri[pos[b]]) => pos[a] < pos[b]
    ]_vars

\* C22's case: of 52 candidates 50 were sent; the last of them in catalog
\* order, of a listed provider, is among the 50, ahead of unlisted ones.
C22_Witness ==
    \E r \in Requests :
        /\ req[r].pc = "ranking"
        /\ req[r].meta.afterFiltering = BigCatalogSize
        /\ Len(req[r].sent) = MaxRankCandidates
        /\ \E a, b \in 1..MaxRankCandidates :
              /\ a < b
              /\ req[r].sent[a] = sGoogle \o <<"/">> \o NumStr(52)
              /\ ProviderPriority([id |-> req[r].sent[b]]) = 999

\* The client's decision after both reads, on every stored catalog, every
\* timestamp cacheModels can have written and every later time: an entry older
\* than CACHE_TTL sends the call on to the two dels (it then returns null), and
\* a catalog is returned only when both entries were present and the timestamp
\* is at most CACHE_TTL old; the catalog returned is the stored one.
C23_ClientReadDecision ==
    \A stored \in StoredModelsAtLoad :
    \A ts \in {Undefined} \cup {Str(toString(k * ClientClockStep)) : k \in 0..MaxClientTicks} :
    \A t \in {k * ClientClockStep : k \in 0..MaxClientTicks} :
    \A after \in {AfterReads([IdleCall EXCEPT !.op = "getCachedModels",
                                              !.pc = "getTimestamp",
                                              !.storedModels = stored,
                                              !.storedTimestamp = ts], t)} :
        /\ (Truthy(stored) /\ Truthy(ts) /\ t - parseInt(ts.v).int > CACHE_TTL) =>
              after.pc = "delModels"
        /\ after.pc \in {"delModels", "done"}
        /\ (after.pc = "done" /\ after.result # Returned(Null)) =>
              /\ Truthy(stored)
              /\ Truthy(ts)
              /\ t - parseInt(ts.v).int <= CACHE_TTL
              /\ ~after.result.threw
              /\ Returned(after.result.value.v.models) = JSONparse(stored)

C24_MissingPrice(raw, field) ==
    \/ IsNullish(raw.endpoint)
    \/ IsNullish(raw.endpoint.v.pricing)
    \/ IsNullish(raw.endpoint.v.pricing.v[field])

\* The modality list of the raw record is missing or empty.
C24_MissingList(x) == IsNullish(x) \/ x = Arr(<<>>)

\* C24: the modality string of a transformed record has exactly one "->" with
\* a non-empty side before and after it, each side parsing to a non-empty list;
\* a missing or empty input (output) list gives "text" on that side, a present
\* one its names joined with "+"; a missing pricing subfield becomes "0".
C24_TransformedShape ==
    tmResult # NotTransformed =>
      \A parts \in {split(tmResult.architecture.modality, sArrow)} :
        /\ Len(parts) = 2
        /\ parts[1] # <<>>
        /\ parts[2] # <<>>
        /\ parseModalityString(tmResult.architecture.modality).inputs # <<>>
        /\ parseModalityString(tmResult.architecture.modality).outputs # <<>>
        /\ parts[1] = IF C24_MissingList(tmRaw.input_modalities) THEN sText
                      ELSE join(tmRaw.input_modalities.v, sPlus)
        /\ parts[2] = IF C24_MissingList(tmRaw.output_modalities) THEN sText
                      ELSE join(tmRaw.output_modalities.v, sPlus)
        /\ \A field \in {"prompt", "completion", "request", "image"} :
              C24_MissingPrice(tmRaw, field) => tmResult.pricing[field] = sZero

\* C24's case: a record with an empty input list, no output list and a pricing
\* object without prices became "text->text" with every price "0".
C24_Witness ==
    /\ tmResult # NotTransformed
    /\ tmRaw.input_modalities = Arr(<<>>)
    /\ tmRaw.output_modalities = Undefined
    /\ tmRaw.endpoint # Undefined
    /\ ~IsNullish(tmRaw.endpoint.v.pricing)
    /\ tmRaw.endpoint.v.pricing.v.prompt = Undefined
    /\ tmResult.architecture.modality = sTextToText
    /\ tmResult.pricing = [prompt |-> sZero, completion |-> sZero,
                           request |-> sZero, image |-> sZero]

\* A keyword of the list occurs in the case-folded use-case text.
C25_Occurs(keywords) ==
    \E i \in 1..Len(keywords) : includes(toLowerCase(hcUseCase), keywords[i])

\* C25: the rule-based extractor gives a result on every use-case text, the
\* same for texts that differ only in case: min_context is 128000 when a
\* long-context keyword occurs (a medium-context keyword occurring or not),
\* 32000 when only a medium-context keyword occurs and 0 otherwise; max_price
\* is 1 when a cheap keyword occurs and undefined when none does.
C25_HeuristicTiers ==
    hcResult # NotExtracted =>
        /\ hcResult.min_context =
              IF C25_Occurs(longContextKeywords) THEN 128000
              ELSE IF C25_Occurs(mediumContextKeywords) THEN 32000
              ELSE 0
        /\ hcResult.max_price = IF C25_Occurs(cheapKeywords) THEN Num(1) ELSE Undefined
        /\ hcResult = extractConstraints(toLowerCase(hcUseCase))

\* C25's case: a text with a long-context and a medium-context keyword, in
\* capitals, and no cheap keyword gave 128000 and no price cap.
C25_Witness ==
    /\ hcResult # NotExtracted
    /\ hcUseCase = <<"R","E","P","O","R","T">> \o sSpace \o <<"B","o","o","k">>
    /\ hcResult.min_context = 128000
    /\ hcResult.max_price = Undefined

\* The counts the Settings page offers: the integers 1 to 10.
C26_Counts == { Num(n) : n \in 1..10 }

\* C26: after any sequence of changes made through the Settings inputs,
\* settings.numRecommendations is an integer between 1 and 10, and the count
\* sent with a /recommend request is in 1..10.
C26_CountInRange ==
    /\ numRecommendations \in C26_Counts
    /\ \A id \in UiRequests :
         uiRecommend[id].pc = "fetching" => uiRecommend[id].count \in C26_Counts

\* C29: while no recommendation request is in flight (none started yet, or
\* every one finished) loadingStage is null: a finished request left it null
\* and no progress timer of a finished request sets a stage afterwards.
C29_StageNullOutsideRequests ==
    (\A id \in UiRequests : uiRecommend[id].pc # "fetching") => loadingStage = "null"

\* C30: the Settings status message reports success only when the refresh of
\* the running or last Clear Cache / Sync Now fetched the catalog and cached
\* it; after a failed catalog fetch it does not report success.
C30_SuccessMeansRefreshed ==
    statusMessage \in {"cleared-and-refreshed", "synced"} =>
        /\ uiRefresh.fetched = "ok"
        /\ uiRefresh.cached

\* The models of a candidate list.
C28_Set(cands) == { cands[i] : i \in 1..Len(cands) }

C28_StrictMatchesKept ==
    (fResult # NoResult /\ ~fResult.threw) =>
        /\ C28_Set(filterModels(fModels, fConstraints, 0).value)
              \subseteq C28_Set(fResult.value.candidates)
        /\ C28_Set(filterModels(fModels, fConstraints, 0).value)
              \subseteq C28_Set(filterModels(fModels, fConstraints, 1).value)
        /\ C28_Set(filterModels(fModels, fConstraints, 1).value)
              \subseteq C28_Set(filterModels(fModels, fConstraints, 2).value)

================================================================================
